---- MODULE Spec2Model ----
(***************************************************************************)
(* Deployment agents of the cloud deployment orchestrator: the Azure VM    *)
(* agent (azure/azure_deployment_agent.py), the Azure WebApp agent         *)
(* (azure/webapp_deployment_agent.py), the EC2 agent                       *)
(* (aws/ec2_deployment_agent.py), the parameter generators and the         *)
(* controller's execute_deployment (controller.py).                        *)
(*                                                                         *)
(* The cloud is the set of resources that exist at the provider.  Every    *)
(* provider call is one step; its response is chosen by the provider:      *)
(* "ok", "notfound" (ResourceNotFoundError) or "error" (any other          *)
(* failure).                                                               *)
(***************************************************************************)
EXTENDS Naturals, Sequences, FiniteSets, TLC

VARIABLES
    cloud,        \* resources that exist at the provider (Azure and AWS)
    vm,           \* VMDeploymentAgent: one activation record per session
    web,          \* WebAppDeploymentAgent: its activation record
    ec2,          \* EC2DeploymentAgent: its activation record
    ctl,          \* DeploymentController.execute_deployment: its activation record
    gen,          \* a parameter generator applied to keyword arguments
    run,          \* DeploymentController.run: its activation record
    ui,           \* the deployment tab of app.py / streamlit.py: st.session_state
    review,       \* the plan-review loop of architect.py, plan_generation_agent.py
                  \* and the diagram tab of streamlit.py
    retry,        \* AzureDeploymentPlanner._call_openai_with_retry: its activation
    infra,        \* deploy_infrastructure: its activation record
    api,          \* an endpoint of api/main.py: its activation record
    invocations,  \* number of entry-point calls made so far
    history       \* the call each agent completed last, when it returned success

\* ------------------------------------------------------------------ bounds

MaxInvocations == 2

AllSessions == {1, 2}

RgNames == {"rg1", "rg2"}

\* ------------------------------------------------------ parameter records
\* A parameter record is a Python dict: a function from the keys it holds.

EmptyDict == [k \in {} |-> ""]

Has(p, k) == k \in DOMAIN p

Get(p, k, d) == IF k \in DOMAIN p THEN p[k] ELSE d

Drop(p, k) == [x \in DOMAIN p \ {k} |-> p[x]]

Put(p, k, v) == [x \in DOMAIN p \cup {k} |-> IF x = k THEN v ELSE p[x]]

\* test_params of test_deployment, with short values
VMBase(rg) ==
    [deployment_type |-> "virtual_machine", resource_group_name |-> rg,
     location |-> "eastus", vm_size |-> "Standard_D2s_v3",
     admin_username |-> "testadmin", admin_password |-> "SecurePass123!",
     vm_name |-> "vm1"]

\* params is a dict, a JSON string of a dict, or a string that is no JSON; the
\* dicts are complete ones, one without the optional vm_name, a VNet-only one,
\* and ones that lack a required key
VMArgs ==
    {[form |-> "dict", val |-> d] :
        d \in {VMBase(rg) : rg \in RgNames}
              \cup {Drop(VMBase("rg1"), "vm_name"),
                    Put(VMBase("rg1"), "deployment_type", "network")}
              \cup {Drop(VMBase("rg1"), k) :
                      k \in {"deployment_type", "resource_group_name", "location",
                             "vm_size", "admin_username", "admin_password"}}}
    \cup {[form |-> "json", val |-> VMBase("rg1")]}
    \cup {[form |-> "text", val |-> EmptyDict]}

\* ------------------------------------------------------------ resource ids

rg_name(p) == p["resource_group_name"]
vnet_name(p) == Get(p, "vnet_name", rg_name(p) \o "-vnet")
vm_name(p) == Get(p, "vm_name", rg_name(p) \o "-vm")

RgOf(p) == <<"rg", rg_name(p)>>
VnetOf(p) == <<"vnet", rg_name(p), vnet_name(p)>>
SubnetOf(p) ==
    <<"subnet", rg_name(p), vnet_name(p), Get(p, "subnet_name", "default-subnet")>>
PipOf(p) == <<"pip", rg_name(p), vm_name(p) \o "-ip">>
NicOf(p) == <<"nic", rg_name(p), vm_name(p) \o "-nic">>
VmOf(p) == <<"vm", rg_name(p), vm_name(p)>>

\* ---------------------------------------------------------------- provider

\* a point lookup: found, ResourceNotFoundError, or another failure
GetResponses(c, rid) ==
    IF rid \in c THEN {"ok", "error"} ELSE {"notfound", "error"}

\* create_or_update: the provider rejects a resource whose group is absent
CreateResponses(c, rid) ==
    IF rid[1] = "rg" \/ <<"rg", rid[2]>> \in c THEN {"ok", "error"} ELSE {"error"}

InitialResources ==
    {RgOf(VMBase("rg1")), VnetOf(VMBase("rg1")), SubnetOf(VMBase("rg1")),
     PipOf(VMBase("rg1")), NicOf(VMBase("rg1")), VmOf(VMBase("rg1"))}

\* --------------------------------------------------------- VMDeploymentAgent

NoResult == [status |-> "none", message |-> "", existing |-> FALSE]

NoCall == [arg |-> EmptyDict, result |-> NoResult]

VmIdle ==
    [pc |-> "idle", arg |-> [form |-> "none", val |-> EmptyDict],
     params |-> EmptyDict, log |-> <<>>, result |-> NoResult,
     subnet_info |-> <<>>, public_ip_result |-> <<>>, nic_result |-> <<>>,
     cloud0 |-> {}]

\* the state of the components that are not provider agents
callers == <<run, ui, review, retry, infra, api>>

outside == <<ctl, gen, callers>>

\* validated_again is what _validate_runtime makes of formatted_runtime
WebIdle ==
    [pc |-> "idle", params |-> EmptyDict, log |-> <<>>, result |-> NoResult,
     plan_result |-> <<>>, formatted_runtime |-> <<>>, cloud0 |-> {},
     validated_again |-> <<>>]

Ec2Idle ==
    [pc |-> "idle", arg |-> EmptyDict, params |-> EmptyDict, run_params |-> EmptyDict,
     log |-> <<>>, result |-> NoResult, instance_id |-> ""]

\* what is remembered of a completed call: its argument and result when it
\* returned success, nothing otherwise
Outcome(arg, result) ==
    IF result.status = "success" THEN [arg |-> arg, result |-> result] ELSE NoCall

\* a call of an entry point by the single caller, who makes one call at a
\* time: no call is in progress, the activation records of earlier calls are
\* gone, and history keeps the call each agent completed last
Call ==
    /\ \A s \in AllSessions : vm[s].pc \in {"idle", "done"}
    /\ web.pc \in {"idle", "done"}
    /\ ec2.pc \in {"idle", "done"}
    /\ ctl.pc \in {"idle", "returned", "raised"}
    /\ run.pc \in {"idle", "done"}
    /\ ui.pc = "idle"
    /\ invocations < MaxInvocations
    /\ invocations' = invocations + 1
    /\ history' =
         [vm |-> IF \E s \in AllSessions : vm[s].pc = "done"
                 THEN LET s == CHOOSE t \in AllSessions : vm[t].pc = "done"
                      IN Outcome(vm[s].arg.val, vm[s].result)
                 ELSE history.vm,
          web |-> IF web.pc = "done" THEN Outcome(web.params, web.result)
                  ELSE history.web,
          ec2 |-> IF ec2.pc = "done" THEN Outcome(ec2.arg, ec2.result)
                  ELSE history.ec2]
    /\ UNCHANGED cloud

Entry(op, rid, out, ret) == [op |-> op, rid |-> rid, out |-> out, ret |-> ret]

Logged(v, e) == [v EXCEPT !.log = Append(@, e)]

\* except Exception in deploy_from_parameters
VmRaise(v, msg) ==
    [v EXCEPT !.pc = "done",
              !.result = [status |-> "error", message |-> msg, existing |-> FALSE]]

VmReturn(v, msg, existing) ==
    [v EXCEPT !.pc = "done",
              !.result = [status |-> "success", message |-> msg, existing |-> existing]]

\* try: get; return True / except ResourceNotFoundError: return False
ExistsOrNotFound(resp) ==
    CASE resp = "ok" -> "true"
      [] resp = "notfound" -> "false"
      [] OTHER -> "raise"

\* a variant with a bare except: every failure counts as absent
check_vnet_exists_Swallow(resp) == IF resp = "ok" THEN "true" ELSE "false"

check_resource_group_exists(resp) == ExistsOrNotFound(resp)
check_vnet_exists(resp) == ExistsOrNotFound(resp)
check_public_ip_exists(resp) == ExistsOrNotFound(resp)
check_nic_exists(resp) == ExistsOrNotFound(resp)
check_vm_exists(resp) == ExistsOrNotFound(resp)

\* a variant that does not require the password
required_params_NoPassword(p) ==
    <<"deployment_type", "resource_group_name", "location">>
    \o (IF p["deployment_type"] = "virtual_machine"
        THEN <<"vm_size", "admin_username">> ELSE <<>>)

\* the keys _validate_parameters requires, in the order it tests them
required_params(p) ==
    <<"deployment_type", "resource_group_name", "location">>
    \o (IF p["deployment_type"] = "virtual_machine"
        THEN <<"vm_size", "admin_username", "admin_password">> ELSE <<>>)

MissingParams(p) ==
    {i \in 1..Len(required_params(p)) : ~Has(p, required_params(p)[i])}

\* "ok" or the message of the exception _validate_parameters raises
validate_parameters(p) ==
    IF ~Has(p, "deployment_type") THEN "KeyError: deployment_type"
    ELSE IF MissingParams(p) # {} THEN "Missing required parameter: "
         \o required_params(p)[CHOOSE i \in MissingParams(p) :
                                  \A j \in MissingParams(p) : i <= j]
    ELSE "ok"

\* a caller calls deploy_from_parameters(params)
VmInvoke(s, a) ==
    /\ Call
    /\ vm' = [t \in AllSessions |->
                IF t = s THEN [VmIdle EXCEPT !.pc = "validate", !.arg = a, !.cloud0 = cloud]
                ELSE VmIdle]
    /\ web' = WebIdle
    /\ ec2' = Ec2Idle
    /\ UNCHANGED outside

\* json.loads of a string argument, then _validate_parameters
VmValidate(s) ==
    /\ vm[s].pc = "validate"
    /\ LET v == vm[s] IN
       vm' = [vm EXCEPT ![s] =
                IF v.arg.form = "text" THEN VmRaise(v, "JSONDecodeError")
                ELSE IF validate_parameters(v.arg.val) # "ok"
                     THEN VmRaise([v EXCEPT !.params = v.arg.val],
                                  validate_parameters(v.arg.val))
                ELSE [v EXCEPT !.params = v.arg.val, !.pc = "check_rg"]]
    /\ UNCHANGED <<cloud, invocations, history, web, ec2, outside>>

ProviderError == "provider error"

\* line 130: if not self._check_resource_group_exists(...), create the group
VmCheckRg(s) ==
    /\ vm[s].pc = "check_rg"
    /\ \E resp \in GetResponses(cloud, RgOf(vm[s].params)) :
         LET ret == check_resource_group_exists(resp)
             v == Logged(vm[s], Entry("check", RgOf(vm[s].params), resp, ret))
         IN vm' = [vm EXCEPT ![s] =
                     IF ret = "raise" THEN VmRaise(v, ProviderError)
                     ELSE [v EXCEPT !.pc = IF ret = "true" THEN "check_vnet"
                                           ELSE "create_rg"]]
    /\ UNCHANGED <<cloud, invocations, history, web, ec2, outside>>

\* lines 132-135: resource_groups.create_or_update (synchronous)
VmCreateRg(s) ==
    /\ vm[s].pc = "create_rg"
    /\ \E resp \in CreateResponses(cloud, RgOf(vm[s].params)) :
         LET v == Logged(vm[s], Entry("create", RgOf(vm[s].params), resp, resp))
         IN /\ vm' = [vm EXCEPT ![s] =
                        IF resp = "ok" THEN [v EXCEPT !.pc = "check_vnet"]
                        ELSE VmRaise(v, ProviderError)]
            /\ cloud' = IF resp = "ok" THEN cloud \cup {RgOf(vm[s].params)} ELSE cloud
    /\ UNCHANGED <<invocations, history, web, ec2, outside>>

\* lines 145, 164: if not self._check_vnet_exists(...), create the network,
\* else get it
VmCheckVnet(s) ==
    /\ vm[s].pc = "check_vnet"
    /\ \E resp \in GetResponses(cloud, VnetOf(vm[s].params)) :
         LET ret == check_vnet_exists(resp)
             v == Logged(vm[s], Entry("check", VnetOf(vm[s].params), resp, ret))
         IN vm' = [vm EXCEPT ![s] =
                     IF ret = "raise" THEN VmRaise(v, ProviderError)
                     ELSE [v EXCEPT !.pc = IF ret = "true" THEN "get_vnet"
                                           ELSE "begin_vnet"]]
    /\ UNCHANGED <<cloud, invocations, history, web, ec2, outside>>

\* a begin_create_or_update call: the provider accepts or rejects the request
Begin(s, at, rid, waitPc) ==
    /\ vm[s].pc = at
    /\ \E resp \in CreateResponses(cloud, rid) :
         LET v == Logged(vm[s], Entry("begin", rid, resp, resp))
         IN vm' = [vm EXCEPT ![s] =
                     IF resp = "ok" THEN [v EXCEPT !.pc = waitPc]
                     ELSE VmRaise(v, ProviderError)]
    /\ UNCHANGED <<cloud, invocations, history, web, ec2, outside>>

\* poller.result(): blocks until the provider reports the outcome; a failed
\* provisioning may or may not leave the resource behind.  after is the
\* activation record as the code following a successful wait leaves it
Wait(s, at, rids, after) ==
    /\ vm[s].pc = at
    /\ \E resp \in {"ok", "error"} :
         LET e == Entry("result", CHOOSE r \in rids : r[1] # "subnet", resp, resp)
         IN /\ vm' = [vm EXCEPT ![s] =
                        IF resp = "ok" THEN Logged(after, e)
                        ELSE VmRaise(Logged(vm[s], e), ProviderError)]
            /\ IF resp = "ok" THEN cloud' = cloud \cup rids
               ELSE cloud' \in {cloud, cloud \cup rids}
    /\ UNCHANGED <<invocations, history, web, ec2, outside>>

\* a get call whose ResourceNotFoundError is not caught by its caller.  after
\* is the activation record as the code following a successful get leaves it
Fetch(s, at, rid, after) ==
    /\ vm[s].pc = at
    /\ \E resp \in GetResponses(cloud, rid) :
         LET e == Entry("get", rid, resp, resp)
         IN vm' = [vm EXCEPT ![s] =
                     IF resp = "ok" THEN Logged(after, e)
                     ELSE VmRaise(Logged(vm[s], e), ProviderError)]
    /\ UNCHANGED <<cloud, invocations, history, web, ec2, outside>>

\* a variant that never returns the existing machine
AfterCheckVm_NoShortCircuit(ret) == "check_pip"

\* line 202: return the existing machine when the check returned True
AfterCheckVm(ret) == IF ret = "true" THEN "get_vm" ELSE "check_pip"

VmCheckVm(s) ==
    /\ vm[s].pc = "check_vm"
    /\ \E resp \in GetResponses(cloud, VmOf(vm[s].params)) :
         LET ret == check_vm_exists(resp)
             v == Logged(vm[s], Entry("check", VmOf(vm[s].params), resp, ret))
         IN vm' = [vm EXCEPT ![s] =
                     IF ret = "raise" THEN VmRaise(v, ProviderError)
                     ELSE [v EXCEPT !.pc = AfterCheckVm(ret)]]
    /\ UNCHANGED <<cloud, invocations, history, web, ec2, outside>>

\* a variant whose result lacks the existing tag
ExistingVm_Untagged(v) == VmReturn(v, "VM already exists", FALSE)

ExistingVm(v) == VmReturn(v, "VM already exists", TRUE)

\* lines 218, 231: if not self._check_public_ip_exists(...), create the
\* address, else get it
VmCheckPublicIp(s) ==
    /\ vm[s].pc = "check_pip"
    /\ \E resp \in GetResponses(cloud, PipOf(vm[s].params)) :
         LET ret == check_public_ip_exists(resp)
             v == Logged(vm[s], Entry("check", PipOf(vm[s].params), resp, ret))
         IN vm' = [vm EXCEPT ![s] =
                     IF ret = "raise" THEN VmRaise(v, ProviderError)
                     ELSE [v EXCEPT !.pc = IF ret = "true" THEN "get_pip"
                                           ELSE "begin_pip"]]
    /\ UNCHANGED <<cloud, invocations, history, web, ec2, outside>>

\* a variant that does not wait for the poller
VmBeginPublicIp_NoWait(s) == Begin(s, "begin_pip", PipOf(vm[s].params), "check_nic")

\* lines 225-229: public_ip_addresses.begin_create_or_update
VmBeginPublicIp(s) == Begin(s, "begin_pip", PipOf(vm[s].params), "wait_pip")

\* a variant that creates the interface whatever the check returned
AfterCheckNic_Always(ret) == "begin_nic"

\* lines 237, 253: create the interface when the check returned False
AfterCheckNic(ret) == IF ret = "true" THEN "get_nic" ELSE "begin_nic"

\* line 237: if not self._check_nic_exists(...)
VmCheckNic(s) ==
    /\ vm[s].pc = "check_nic"
    /\ \E resp \in GetResponses(cloud, NicOf(vm[s].params)) :
         LET ret == check_nic_exists(resp)
             v == Logged(vm[s], Entry("check", NicOf(vm[s].params), resp, ret))
         IN vm' = [vm EXCEPT ![s] =
                     IF ret = "raise" THEN VmRaise(v, ProviderError)
                     ELSE [v EXCEPT !.pc = AfterCheckNic(ret)]]
    /\ UNCHANGED <<cloud, invocations, history, web, ec2, outside>>

\* lines 239-251: network_interfaces.begin_create_or_update; nic_params reads
\* subnet_info.id and public_ip_result.id
VmBeginNic(s) ==
    /\ vm[s].pc = "begin_nic"
    /\ IF vm[s].subnet_info = <<>> \/ vm[s].public_ip_result = <<>>
       THEN /\ vm' = [vm EXCEPT ![s] = VmRaise(vm[s], "UnboundLocalError")]
            /\ UNCHANGED <<cloud, invocations, history, web, ec2, outside>>
       ELSE Begin(s, "begin_nic", NicOf(vm[s].params), "wait_nic")

\* lines 258-299: vm_params reads three keys with params[...] (lines 262, 281,
\* 282), then virtual_machines.begin_create_or_update
VmBeginVm(s) ==
    /\ vm[s].pc = "begin_vm"
    /\ IF ~({"vm_size", "admin_username", "admin_password"} \subseteq DOMAIN vm[s].params)
       THEN /\ vm' = [vm EXCEPT ![s] = VmRaise(vm[s], "KeyError")]
            /\ UNCHANGED <<cloud, invocations, history, web, ec2, outside>>
       ELSE IF vm[s].nic_result = <<>>
       THEN /\ vm' = [vm EXCEPT ![s] = VmRaise(vm[s], "UnboundLocalError")]
            /\ UNCHANGED <<cloud, invocations, history, web, ec2, outside>>
       ELSE Begin(s, "begin_vm", VmOf(vm[s].params), "wait_vm")

\* one step of deploy_from_parameters in session s
VmStep(s) ==
    LET p == vm[s].params
        ToGetSubnet == [vm[s] EXCEPT !.pc = "get_subnet"]
        GotSubnet == [vm[s] EXCEPT !.subnet_info = SubnetOf(p)]
        GotPublicIp == [vm[s] EXCEPT !.public_ip_result = PipOf(p), !.pc = "check_nic"]
        GotNic == [vm[s] EXCEPT !.nic_result = NicOf(p), !.pc = "begin_vm"]
    IN
    \/ VmValidate(s)
    \/ VmCheckRg(s)
    \/ VmCreateRg(s)
    \/ VmCheckVnet(s)
    \* lines 157-161: virtual_networks.begin_create_or_update
    \/ Begin(s, "begin_vnet", VnetOf(p), "wait_vnet")
    \* line 162: vnet_poller.result(); the network comes into existence with
    \* its subnet
    \/ Wait(s, "wait_vnet", {VnetOf(p), SubnetOf(p)}, ToGetSubnet)
    \* line 166: virtual_networks.get of the existing network
    \/ Fetch(s, "get_vnet", VnetOf(p), ToGetSubnet)
    \* lines 169-173: subnets.get; lines 176-195: the VM branch, or the
    \* VNet-only result
    \/ Fetch(s, "get_subnet", SubnetOf(p),
             IF p["deployment_type"] = "virtual_machine"
             THEN [GotSubnet EXCEPT !.pc = "check_vm"]
             ELSE VmReturn(GotSubnet, "VNet only deployment completed", FALSE))
    \/ VmCheckVm(s)
    \* lines 203-214: virtual_machines.get, then the result tagged existing
    \/ Fetch(s, "get_vm", VmOf(p), ExistingVm(vm[s]))
    \/ VmCheckPublicIp(s)
    \/ VmBeginPublicIp(s)
    \* line 230: public_ip_poller.result()
    \/ Wait(s, "wait_pip", {PipOf(p)}, GotPublicIp)
    \* line 233: public_ip_addresses.get of the existing address
    \/ Fetch(s, "get_pip", PipOf(p), GotPublicIp)
    \/ VmCheckNic(s)
    \/ VmBeginNic(s)
    \* line 252: nic_poller.result()
    \/ Wait(s, "wait_nic", {NicOf(p)}, GotNic)
    \* line 255: network_interfaces.get of the existing interface
    \/ Fetch(s, "get_nic", NicOf(p), GotNic)
    \/ VmBeginVm(s)
    \* line 300: vm_poller.result()
    \/ Wait(s, "wait_vm", {VmOf(p)}, [vm[s] EXCEPT !.pc = "get_address"])
    \* lines 305-322: sleep, public_ip_addresses.get, then the result
    \/ Fetch(s, "get_address", PipOf(p),
             VmReturn(vm[s], "New VM deployment completed", FALSE))

\* ----------------------------------------------------- WebAppDeploymentAgent


PlanOf(p) == <<"plan", rg_name(p), p["app_name"] \o "-plan">>
WebAppOf(p) == <<"webapp", rg_name(p), p["app_name"]>>

\* a runtime string, as the tokens the agent tells apart
Runtime(stack, sep, version) == <<stack, sep, version>>

\* test_params of test_deployment
WebBase(rg) ==
    [deployment_type |-> "webapp", resource_group_name |-> rg, app_name |-> "app1",
     location |-> "eastus", runtime |-> Runtime("python", ":", "3.9"), sku |-> "F1"]

WebArgs ==
    {WebBase(rg) : rg \in RgNames}
    \cup {Drop(WebBase("rg1"), k) :
            k \in {"resource_group_name", "app_name", "location", "runtime", "sku"}}
    \cup {Put(WebBase("rg1"), "sku", ""),
          Put(WebBase("rg1"), "runtime", Runtime("PYTHON", "|", "3.9")),
          Put(WebBase("rg1"), "runtime", Runtime("ruby", ":", "3"))}

\* self.runtime_mappings
runtime_mappings ==
    {<<Runtime("python", ":", "3.9"), Runtime("PYTHON", "|", "3.9")>>,
     <<Runtime("python", ":", "3.8"), Runtime("PYTHON", "|", "3.8")>>,
     <<Runtime("node", ":", "16-lts"), Runtime("NODE", "|", "16-lts")>>,
     <<Runtime("node", ":", "18-lts"), Runtime("NODE", "|", "18-lts")>>,
     <<Runtime("dotnet", ":", "6"), Runtime("DOTNETCORE", "|", "6.0")>>,
     <<Runtime("php", ":", "8"), Runtime("PHP", "|", "8.0")>>}

\* a variant whose default is the shorthand of Python 3.9
validate_runtime_Shorthand(runtime) ==
    IF \E i \in 1..Len(runtime) : runtime[i] = "|" THEN runtime
    ELSE IF \E m \in runtime_mappings : m[1] = runtime
         THEN (CHOOSE m \in runtime_mappings : m[1] = runtime)[2]
    ELSE Runtime("python", ":", "3.9")

\* lines 24-36
validate_runtime(runtime) ==
    IF \E i \in 1..Len(runtime) : runtime[i] = "|" THEN runtime
    ELSE IF \E m \in runtime_mappings : m[1] = runtime
         THEN (CHOOSE m \in runtime_mappings : m[1] = runtime)[2]
    ELSE Runtime("PYTHON", "|", "3.9")

\* _validate_runtime applied to a runtime string
ValidateRuntime ==
    /\ web.pc = "validate_runtime"
    /\ web' = [web EXCEPT !.pc = "validated",
                          !.formatted_runtime = validate_runtime(web.params["runtime"])]
    /\ UNCHANGED <<cloud, vm, ec2, invocations, history, outside>>

\* _validate_runtime applied to what it returned
ValidateAgain ==
    /\ web.pc = "validated"
    /\ web' = [web EXCEPT !.pc = "validated_twice",
                          !.validated_again = validate_runtime(web.formatted_runtime)]
    /\ UNCHANGED <<cloud, vm, ec2, invocations, history, outside>>

\* except Exception in deploy_webapp
WebRaise(w, msg) ==
    [w EXCEPT !.pc = "done",
              !.result = [status |-> "error", message |-> msg, existing |-> FALSE]]

\* a caller calls deploy_webapp(params)
WebInvoke(p) ==
    /\ Call
    /\ web' = [WebIdle EXCEPT !.pc = "create_rg", !.params = p, !.cloud0 = cloud]
    /\ vm' = [t \in AllSessions |-> VmIdle]
    /\ ec2' = Ec2Idle
    /\ UNCHANGED outside

\* a variant that creates the group only when it is absent
WebCreateRg_IfAbsent ==
    /\ web.pc = "create_rg"
    /\ IF ~({"resource_group_name", "location"} \subseteq DOMAIN web.params)
       THEN /\ web' = WebRaise(web, "KeyError")
            /\ UNCHANGED cloud
       ELSE IF RgOf(web.params) \in cloud
       THEN /\ web' = [web EXCEPT !.pc = "begin_plan"]
            /\ UNCHANGED cloud
       ELSE \E resp \in CreateResponses(cloud, RgOf(web.params)) :
              LET w == Logged(web, Entry("create", RgOf(web.params), resp, resp))
              IN /\ web' = IF resp = "ok" THEN [w EXCEPT !.pc = "begin_plan"]
                           ELSE WebRaise(w, ProviderError)
                 /\ cloud' = IF resp = "ok" THEN cloud \cup {RgOf(web.params)} ELSE cloud
    /\ UNCHANGED <<vm, ec2, invocations, history, outside>>

\* lines 44-49: resource_groups.create_or_update, whether or not the group exists
WebCreateRg ==
    /\ web.pc = "create_rg"
    /\ IF ~({"resource_group_name", "location"} \subseteq DOMAIN web.params)
       THEN /\ web' = WebRaise(web, "KeyError")
            /\ UNCHANGED cloud
       ELSE \E resp \in CreateResponses(cloud, RgOf(web.params)) :
              LET w == Logged(web, Entry("create", RgOf(web.params), resp, resp))
              IN /\ web' = IF resp = "ok" THEN [w EXCEPT !.pc = "begin_plan"]
                           ELSE WebRaise(w, ProviderError)
                 /\ cloud' = IF resp = "ok" THEN cloud \cup {RgOf(web.params)} ELSE cloud
    /\ UNCHANGED <<vm, ec2, invocations, history, outside>>

\* lines 51-67: the plan's arguments, then app_service_plans.begin_create_or_update
WebBeginPlan ==
    /\ web.pc = "begin_plan"
    /\ IF ~({"app_name", "sku"} \subseteq DOMAIN web.params)
       THEN web' = WebRaise(web, "KeyError")
       ELSE IF web.params["sku"] = ""
       THEN web' = WebRaise(web, "IndexError")
       ELSE \E resp \in CreateResponses(cloud, PlanOf(web.params)) :
              LET w == Logged(web, Entry("begin", PlanOf(web.params), resp, resp))
              IN web' = IF resp = "ok" THEN [w EXCEPT !.pc = "wait_plan"]
                        ELSE WebRaise(w, ProviderError)
    /\ UNCHANGED <<cloud, vm, ec2, invocations, history, outside>>

\* line 68: .result() of the plan's poller
WebWaitPlan ==
    /\ web.pc = "wait_plan"
    /\ \E resp \in {"ok", "error"} :
         LET w == Logged(web, Entry("result", PlanOf(web.params), resp, resp))
         IN /\ web' = IF resp = "ok"
                      THEN [w EXCEPT !.pc = "begin_webapp",
                                     !.plan_result = PlanOf(web.params)]
                      ELSE WebRaise(w, ProviderError)
            /\ IF resp = "ok" THEN cloud' = cloud \cup {PlanOf(web.params)}
               ELSE cloud' \in {cloud, cloud \cup {PlanOf(web.params)}}
    /\ UNCHANGED <<vm, ec2, invocations, history, outside>>

\* lines 70-91: _validate_runtime, then web_apps.begin_create_or_update
WebBeginWebApp ==
    /\ web.pc = "begin_webapp"
    /\ IF ~Has(web.params, "runtime")
       THEN web' = WebRaise(web, "KeyError")
       ELSE \E resp \in CreateResponses(cloud, WebAppOf(web.params)) :
              LET w == Logged([web EXCEPT !.formatted_runtime =
                                              validate_runtime(web.params["runtime"])],
                              Entry("begin", WebAppOf(web.params), resp, resp))
              IN web' = IF resp = "ok" THEN [w EXCEPT !.pc = "wait_webapp"]
                        ELSE WebRaise(w, ProviderError)
    /\ UNCHANGED <<cloud, vm, ec2, invocations, history, outside>>

\* lines 92-105: .result() of the web app's poller, then the result
WebWaitWebApp ==
    /\ web.pc = "wait_webapp"
    /\ \E resp \in {"ok", "error"} :
         LET w == Logged(web, Entry("result", WebAppOf(web.params), resp, resp))
         IN /\ web' = IF resp = "ok"
                      THEN [w EXCEPT !.pc = "done",
                                     !.result = [status |-> "success",
                                                 message |-> "", existing |-> FALSE]]
                      ELSE WebRaise(w, ProviderError)
            /\ IF resp = "ok" THEN cloud' = cloud \cup {WebAppOf(web.params)}
               ELSE cloud' \in {cloud, cloud \cup {WebAppOf(web.params)}}
    /\ UNCHANGED <<vm, ec2, invocations, history, outside>>

WebStep ==
    \/ WebCreateRg
    \/ WebBeginPlan
    \/ WebWaitPlan
    \/ WebBeginWebApp
    \/ WebWaitWebApp

\* -------------------------------------------------------- EC2DeploymentAgent

\* Python's None
None == "None"

Instances(c) == {r \in c : r[1] = "instance"}

\* test_params of test_deployment
EC2Base ==
    [instance_name |-> "test-instance", instance_type |-> "t2.micro",
     ami_id |-> "ami-0150ccaf51ab55a51", security_group_ids |-> <<"default">>]

EC2Args ==
    {EC2Base, [instance_name |-> "test-instance"],
     Drop(EC2Base, "instance_name"),
     Put(EC2Base, "key_pair_name", "kp"), Put(EC2Base, "key_pair_name", None),
     Put(EC2Base, "instance_name", "other")}

Ec2Raise(e, msg) ==
    [e EXCEPT !.pc = "done",
              !.result = [status |-> "error", message |-> msg, existing |-> FALSE]]

\* dict.setdefault
setdefault(p, k, v) == IF Has(p, k) THEN p ELSE Put(p, k, v)

\* lines 38-40
with_defaults(p) ==
    setdefault(setdefault(setdefault(p, "instance_type", "t2.micro"),
                          "ami_id", "ami-0c55b159cbfafe1f0"),
               "security_group_ids", <<"default">>)

\* lines 43-54; KeyName is added when params.get('key_pair_name') is truthy
run_params(p) ==
    LET r == [ImageId |-> p["ami_id"], InstanceType |-> p["instance_type"],
              SecurityGroupIds |-> p["security_group_ids"], Name |-> p["instance_name"]]
    IN IF Has(p, "key_pair_name") /\ p["key_pair_name"] # None /\ p["key_pair_name"] # ""
       THEN Put(r, "KeyName", p["key_pair_name"]) ELSE r

\* a caller calls deploy_ec2_instance(params)
Ec2Invoke(p) ==
    /\ Call
    /\ ec2' = [Ec2Idle EXCEPT !.pc = "prepare", !.arg = p, !.params = p]
    /\ vm' = [t \in AllSessions |-> VmIdle]
    /\ web' = WebIdle
    /\ UNCHANGED outside

\* lines 31-54: the print of params['instance_name'], the defaults, run_params
Ec2Prepare ==
    /\ ec2.pc = "prepare"
    /\ ec2' = IF ~Has(ec2.params, "instance_name")
              THEN Ec2Raise(ec2, "Unexpected error")
              ELSE [ec2 EXCEPT !.params = with_defaults(ec2.params),
                               !.run_params = run_params(with_defaults(ec2.params)),
                               !.pc = "run_instances"]
    /\ UNCHANGED <<cloud, vm, web, invocations, history, outside>>

\* line 56: run_instances launches a new instance on every accepted call
Ec2RunInstances ==
    /\ ec2.pc = "run_instances"
    /\ \E resp \in {"ok", "error"} :
         LET id == <<"i-1", "i-2", "i-3", "i-4", "i-5">>[Cardinality(Instances(cloud)) + 1]
             rid == <<"instance", id, ec2.run_params["Name"]>>
             e == Logged(ec2, Entry("run_instances", rid, resp, resp))
         IN /\ ec2' = IF resp = "ok"
                      THEN [e EXCEPT !.pc = "wait_running", !.instance_id = id]
                      ELSE Ec2Raise(e, "AWS API error")
            /\ cloud' = IF resp = "ok" THEN cloud \cup {rid} ELSE cloud
    /\ UNCHANGED <<vm, web, invocations, history, outside>>

\* lines 62-63: the instance_running waiter
Ec2WaitRunning ==
    /\ ec2.pc = "wait_running"
    /\ \E resp \in {"ok", "error"} :
         ec2' = IF resp = "ok" THEN [ec2 EXCEPT !.pc = "describe"]
                ELSE Ec2Raise(ec2, "Unexpected error")
    /\ UNCHANGED <<cloud, vm, web, invocations, history, outside>>

\* lines 66-80: describe_instances, then the result
Ec2Describe ==
    /\ ec2.pc = "describe"
    /\ \E resp \in {"ok", "error"} :
         ec2' = IF resp = "ok"
                THEN [ec2 EXCEPT !.pc = "done",
                                 !.result = [status |-> "success",
                                             message |-> "EC2 instance deployed successfully",
                                             existing |-> FALSE]]
                ELSE Ec2Raise(ec2, "AWS API error")
    /\ UNCHANGED <<cloud, vm, web, invocations, history, outside>>

Ec2Step ==
    \/ Ec2Prepare
    \/ Ec2RunInstances
    \/ Ec2WaitRunning
    \/ Ec2Describe

\* ------------------------------------------------------ parameter generators

\* a keyword argument that is not passed
Absent == "<absent>"

\* the dict of the arguments that are passed
Passed(f) == [k \in {x \in DOMAIN f : f[x] # Absent} |-> f[k]]

\* Python's binding of f(**kw): every parameter without a default must be
\* passed and no unknown keyword may be
Binds(kw, required, optional) ==
    required \subseteq DOMAIN kw /\ DOMAIN kw \subseteq (required \cup optional)

\* what a generator call comes to is the exception raised ("" for none) and
\* the record returned

\* the parameters without a default of each generator
GenRequired(kind) ==
    CASE kind = "vm" -> {"resource_group_name", "location", "vm_name", "admin_username",
                         "admin_password"}
      [] kind = "webapp" -> {"resource_group_name", "app_name", "location"}
      [] OTHER -> {"instance_name"}

\* AzureParameterGenerator.generate_vm_parameters(**kw)
generate_vm_parameters(kw) ==
    IF ~Binds(kw, GenRequired("vm"), {"vm_size", "image_reference"})
    THEN [raised |-> "TypeError", record |-> EmptyDict]
    ELSE [raised |-> "", record |->
        [deployment_type |-> "virtual_machine",
         resource_group_name |-> kw["resource_group_name"],
         location |-> kw["location"],
         vm_size |-> Get(kw, "vm_size", "Standard_D2s_v3"),
         admin_username |-> kw["admin_username"],
         admin_password |-> kw["admin_password"],
         vm_name |-> kw["vm_name"],
         image_reference |-> IF Get(kw, "image_reference", None) \in {None, ""}
                             THEN "Canonical/0001-com-ubuntu-server-jammy/22_04-lts-gen2/latest"
                             ELSE kw["image_reference"]]]

\* WebAppParameterGenerator.generate_webapp_parameters(**kw)
generate_webapp_parameters(kw) ==
    IF ~Binds(kw, GenRequired("webapp"), {"runtime", "sku"})
    THEN [raised |-> "TypeError", record |-> EmptyDict]
    ELSE [raised |-> "", record |->
        [deployment_type |-> "webapp",
         resource_group_name |-> kw["resource_group_name"],
         app_name |-> kw["app_name"],
         location |-> kw["location"],
         runtime |-> Get(kw, "runtime", Runtime("python", ":", "3.9")),
         sku |-> Get(kw, "sku", "F1")]]

\* EC2ParameterGenerator.generate_ec2_parameters(**kw); a list of group ids is
\* a tuple, and None, like the empty list, is <<>> (both are falsy)
generate_ec2_parameters(kw) ==
    IF ~Binds(kw, GenRequired("ec2"),
              {"instance_type", "ami_id", "key_pair_name", "security_group_ids",
               "subnet_id"})
    THEN [raised |-> "TypeError", record |-> EmptyDict]
    ELSE [raised |-> "", record |->
        [deployment_type |-> "ec2",
         instance_name |-> kw["instance_name"],
         instance_type |-> Get(kw, "instance_type", "t2.micro"),
         ami_id |-> Get(kw, "ami_id", "ami-0c55b159cbfafe1f0"),
         key_pair_name |-> Get(kw, "key_pair_name", None),
         security_group_ids |-> IF Get(kw, "security_group_ids", <<>>) = <<>>
                                THEN <<"default">> ELSE kw["security_group_ids"],
         subnet_id |-> Get(kw, "subnet_id", None),
         tag_specifications |-> <<"instance", "Name", kw["instance_name"]>>]]

\* the keyword arguments a generator is applied to: every required field
\* passed, passed empty or not passed
GenInputs(kind) ==
    CASE kind = "vm" ->
           {Passed(f) : f \in [GenRequired("vm") -> {Absent, "", "x"}]}
           \cup {Put(Passed([k \in GenRequired("vm") |-> "x"]), "vm_size", "Standard_B1s"),
                 Put(Passed([k \in GenRequired("vm") |-> "x"]), "image_reference", "custom"),
                 Put(Passed([k \in GenRequired("vm") |-> "x"]), "size", "big")}
      [] kind = "webapp" ->
           {Passed(f) : f \in [GenRequired("webapp") -> {Absent, "", "x"}]}
           \cup {Put(Passed([k \in GenRequired("webapp") |-> "x"]), "sku", "B1")}
      [] OTHER ->
           {Passed(f) : f \in [{"instance_name", "key_pair_name"} -> {Absent, "", "x"}]}
           \cup {[instance_name |-> "x", key_pair_name |-> None],
                 [instance_name |-> "x", security_group_ids |-> <<"sg-1">>]}

GenIdle == [pc |-> "idle", kind |-> "", kwargs |-> EmptyDict, out |-> [raised |-> "", record |-> EmptyDict]]

GenerateVm ==
    /\ gen.pc = "ready" /\ gen.kind = "vm"
    /\ gen' = [gen EXCEPT !.pc = "done", !.out = generate_vm_parameters(gen.kwargs)]
    /\ UNCHANGED <<cloud, vm, web, ec2, ctl, invocations, history, callers>>

GenerateWebApp ==
    /\ gen.pc = "ready" /\ gen.kind = "webapp"
    /\ gen' = [gen EXCEPT !.pc = "done", !.out = generate_webapp_parameters(gen.kwargs)]
    /\ UNCHANGED <<cloud, vm, web, ec2, ctl, invocations, history, callers>>

GenerateEc2 ==
    /\ gen.pc = "ready" /\ gen.kind = "ec2"
    /\ gen' = [gen EXCEPT !.pc = "done", !.out = generate_ec2_parameters(gen.kwargs)]
    /\ UNCHANGED <<cloud, vm, web, ec2, ctl, invocations, history, callers>>

\* ------------------------------------------------------ DeploymentController

\* a variant that takes any platform it does not know for Azure
lower_Default(x) ==
    CASE x = "Azure" -> "azure"
      [] x = "AWS" -> "aws"
      [] x = "GCP" -> "azure"
      [] x = "VM" -> "vm"
      [] OTHER -> x

\* str.lower() on the strings a plan holds
lower(x) ==
    CASE x = "Azure" -> "azure"
      [] x = "AWS" -> "aws"
      [] x = "GCP" -> "gcp"
      [] x = "VM" -> "vm"
      [] OTHER -> x

\* what the UI form or the caller hands over as plan["parameters"]
UserVm ==
    [resource_group_name |-> "rg1", location |-> "eastus", vm_name |-> "vm1",
     admin_username |-> "testadmin", admin_password |-> "SecurePass123!"]

UserWeb ==
    [resource_group_name |-> "rg1", app_name |-> "app1", location |-> "eastus",
     runtime |-> Runtime("python", ":", "3.9"), sku |-> "F1"]

Plan(platform, type, parameters) ==
    [cloud_platform |-> platform, deployment_type |-> type, parameters |-> parameters]

\* the arguments of execute_deployment
Plans ==
    {EmptyDict,
     Plan("Azure", "vm", UserVm),
     Plan("Azure", "vm", Put(UserVm, "admin_password", "")),
     Plan("Azure", "vm", Drop(UserVm, "admin_password")),
     Drop(Plan("Azure", "VM", UserVm), "parameters"),
     Plan("Azure", "webapp", UserWeb),
     Plan("Azure", "webapp", Drop(UserWeb, "app_name")),
     Plan("Azure", "ec2", UserVm),
     Plan("AWS", "ec2", EmptyDict),
     Plan("AWS", "vm", UserVm),
     Plan("GCP", "vm", UserVm),
     Drop(Plan("Azure", "vm", UserVm), "cloud_platform")}

\* collect_ec2_parameters: what the user types at the four prompts
collect_ec2_parameters ==
    {[instance_name |-> n, instance_type |-> "t2.micro",
      ami_id |-> "ami-0b11fdf21b051501b", key_pair_name |-> k] :
        n \in {"", "test-instance"}, k \in {None, "kp"}}

\* stdout is the stream sys.stdout names and stdout0 the one it named when
\* execute_deployment was called; old_stdout is the local variable; buffer
\* is the text written to the StringIO and printed the text written by every
\* print of the call, a text being a sequence of pieces with "\n" for the
\* line break; logs is result["logs"], a list of lines
CtlIdle ==
    [pc |-> "idle", plan |-> EmptyDict, user_params |-> EmptyDict,
     result |-> [status |-> "none", message |-> "", existing |-> FALSE, logs |-> FALSE],
     exception |-> "", stdout |-> "console", generator |-> "",
     stdout0 |-> "console", old_stdout |-> "", buffer |-> <<>>, printed |-> <<>>,
     logs |-> <<>>]

CtlReturn(c, status, message) ==
    [c EXCEPT !.pc = "returned",
              !.result = [status |-> status, message |-> message,
                          existing |-> FALSE, logs |-> FALSE]]

\* an exception leaves execute_deployment
CtlRaise(c, exc) == [c EXCEPT !.pc = "raised", !.exception = exc]

\* print(s) of the controller or the agent: the text and a line break go to
\* the stream sys.stdout names at that moment
print(c, s) ==
    [c EXCEPT !.printed = @ \o s \o <<"\n">>,
              !.buffer = IF c.stdout = "buffer" THEN @ \o s \o <<"\n">> ELSE @]

\* str.split('\n'): the pieces between the line breaks, one more than there
\* are line breaks
split(text) ==
    LET breaks == {i \in 1..Len(text) : text[i] = "\n"}
        ends == breaks \cup {Len(text) + 1}
        start(e) == IF \E b \in breaks : b < e
                    THEN 1 + CHOOSE b \in breaks : b < e /\ \A x \in breaks : x < e => x <= b
                    ELSE 1
        nth(k) == CHOOSE e \in ends : Cardinality({x \in ends : x < e}) = k - 1
    IN [k \in 1..Cardinality(ends) |-> SubSeq(text, start(nth(k)), nth(k) - 1)]

\* a variant of the finally clause that always names the console
finally_Console(c) == [c EXCEPT !.stdout = "console"]

\* lines 144-146, the finally clause: sys.stdout = old_stdout
finally(c) == [c EXCEPT !.stdout = c.old_stdout]

\* what the prints of the VM agent write after one provider call
\* (azure_deployment_agent.py lines 131-304)
printed_after(e) ==
    CASE e.op = "check" /\ e.rid[1] \in {"rg", "vnet", "pip", "nic"} /\ e.ret = "false" ->
           <<"\n", "Creating", e.rid[1], "\n">>
      [] e.op = "check" /\ e.rid[1] \in {"rg", "vnet", "pip", "nic"} /\ e.ret = "true" ->
           <<"\n", e.rid[1], "already exists", "\n">>
      [] e.op = "result" /\ e.rid[1] = "vnet" /\ e.out = "ok" ->
           <<"Successfully created", "vnet", "\n">>
      [] e.op \in {"result", "get"} /\ e.rid[1] = "nic" /\ e.out = "ok" ->
           <<"\n", "Creating", "vm", "\n">>
      [] e.op = "result" /\ e.rid[1] = "vm" /\ e.out = "ok" ->
           <<"Successfully created", "vm", "\n", "\n",
             "Waiting for public IP address allocation...", "\n">>
      [] OTHER -> <<>>

\* a caller calls execute_deployment(deployment_plan), with sys.stdout the
\* console or a stream the caller has put in its place
CtlExecute(plan) ==
    /\ Call
    /\ \E stream \in {"console", "stream"} :
         ctl' = [CtlIdle EXCEPT !.pc = "dispatch", !.plan = plan,
                                !.stdout = stream, !.stdout0 = stream]
    /\ vm' = [t \in AllSessions |-> VmIdle]
    /\ web' = WebIdle
    /\ ec2' = Ec2Idle
    /\ UNCHANGED <<gen, callers>>

\* lines 123-146 up to the agent's call: the Azure VM branch
CtlAzureVm ==
    LET out == generate_vm_parameters(ctl.plan["parameters"])
        \* lines 130-134
        c == print([ctl EXCEPT !.old_stdout = ctl.stdout, !.stdout = "buffer"],
                   <<"\n", "Starting Azure VM deployment workflow...">>)
    IN
    IF ~Has(ctl.plan, "parameters")
    THEN ctl' = finally(CtlRaise(c, "KeyError")) /\ UNCHANGED <<vm, web, ec2>>
    ELSE IF out.raised # ""
    THEN ctl' = finally(CtlRaise([c EXCEPT !.user_params = ctl.plan["parameters"],
                                           !.generator = "vm"], out.raised))
         /\ UNCHANGED <<vm, web, ec2>>
    ELSE /\ ctl' = [c EXCEPT !.pc = "await_vm", !.generator = "vm",
                             !.user_params = ctl.plan["parameters"]]
         /\ vm' = [vm EXCEPT ![1] =
                     [VmIdle EXCEPT !.pc = "validate", !.cloud0 = cloud,
                                    !.arg = [form |-> "dict", val |-> out.record]]]
         /\ UNCHANGED <<web, ec2>>

\* lines 148-152 up to the agent's call: the Azure WebApp branch
CtlAzureWebApp ==
    LET out == generate_webapp_parameters(ctl.plan["parameters"])
        c == print(ctl, <<"\n", "Starting Azure WebApp deployment workflow...">>)
    IN
    IF ~Has(ctl.plan, "parameters")
    THEN ctl' = CtlRaise(c, "KeyError") /\ UNCHANGED <<vm, web, ec2>>
    ELSE IF out.raised # ""
    THEN ctl' = CtlRaise([c EXCEPT !.user_params = ctl.plan["parameters"],
                                   !.generator = "webapp"], out.raised)
         /\ UNCHANGED <<vm, web, ec2>>
    ELSE /\ ctl' = [c EXCEPT !.pc = "await_web", !.generator = "webapp",
                             !.user_params = ctl.plan["parameters"]]
         /\ web' = [WebIdle EXCEPT !.pc = "create_rg", !.params = out.record,
                                   !.cloud0 = cloud]
         /\ UNCHANGED <<vm, ec2>>

\* a variant that hands an AWS plan to the Azure VM branch
CtlAwsEc2_Azure == CtlAzureVm

\* lines 165-170 up to the agent's call: the AWS EC2 branch
CtlAwsEc2 ==
    \E u \in collect_ec2_parameters :
        LET out == generate_ec2_parameters(u)
            c == print(ctl, <<"\n", "Starting AWS EC2 deployment workflow...">>)
        IN
        IF out.raised # ""
        THEN ctl' = CtlRaise([c EXCEPT !.user_params = u, !.generator = "ec2"],
                             out.raised)
             /\ UNCHANGED <<vm, web, ec2>>
        ELSE /\ ctl' = [c EXCEPT !.pc = "await_ec2", !.user_params = u,
                                 !.generator = "ec2"]
             /\ ec2' = [Ec2Idle EXCEPT !.pc = "prepare", !.arg = out.record,
                                       !.params = out.record]
             /\ UNCHANGED <<vm, web>>

\* lines 117-178: the routing of execute_deployment
CtlDispatch ==
    /\ ctl.pc = "dispatch"
    /\ IF ctl.plan = EmptyDict
       THEN ctl' = CtlReturn(ctl, "error", "Invalid deployment plan")
            /\ UNCHANGED <<vm, web, ec2>>
       ELSE IF ~({"cloud_platform", "deployment_type"} \subseteq DOMAIN ctl.plan)
       THEN ctl' = CtlRaise(ctl, "KeyError") /\ UNCHANGED <<vm, web, ec2>>
       ELSE LET cloud_platform == lower(ctl.plan["cloud_platform"])
                deployment_type == lower(ctl.plan["deployment_type"])
            IN IF cloud_platform = "azure"
               THEN IF deployment_type = "vm" THEN CtlAzureVm
                    ELSE IF deployment_type = "webapp" THEN CtlAzureWebApp
                    ELSE ctl' = CtlReturn(ctl, "error", "Unsupported Azure deployment type")
                         /\ UNCHANGED <<vm, web, ec2>>
               ELSE IF cloud_platform = "aws"
               THEN IF deployment_type = "ec2" THEN CtlAwsEc2
                    ELSE ctl' = CtlReturn(ctl, "error", "Unsupported AWS deployment type")
                         /\ UNCHANGED <<vm, web, ec2>>
               ELSE ctl' = CtlReturn(ctl, "error", "Unknown cloud platform")
                    /\ UNCHANGED <<vm, web, ec2>>
    /\ UNCHANGED <<cloud, gen, invocations, history, callers>>

\* lines 137-146: the VM agent's result with the captured output as "logs"
CtlReturnVm ==
    /\ ctl.pc = "await_vm"
    /\ vm[1].pc = "done"
    /\ LET said[i \in 0..Len(vm[1].log)] ==
               IF i = 0 THEN <<>> ELSE said[i - 1] \o printed_after(vm[1].log[i])
           c == [ctl EXCEPT !.printed = @ \o said[Len(vm[1].log)],
                            !.buffer = IF ctl.stdout = "buffer"
                                       THEN @ \o said[Len(vm[1].log)] ELSE @]
       IN ctl' = finally([c EXCEPT !.pc = "returned",
                                   !.logs = split(c.buffer),
                                   !.result = [status |-> vm[1].result.status,
                                               message |-> vm[1].result.message,
                                               existing |-> vm[1].result.existing,
                                               logs |-> TRUE]])
    /\ UNCHANGED <<cloud, vm, web, ec2, gen, invocations, history, callers>>

\* line 152: the WebApp agent's result
CtlReturnWebApp ==
    /\ ctl.pc = "await_web"
    /\ web.pc = "done"
    /\ ctl' = [ctl EXCEPT !.pc = "returned",
                          !.result = [status |-> web.result.status,
                                      message |-> web.result.message,
                                      existing |-> web.result.existing,
                                      logs |-> FALSE]]
    /\ UNCHANGED <<cloud, vm, web, ec2, gen, invocations, history, callers>>

\* line 170: the EC2 agent's result
CtlReturnEc2 ==
    /\ ctl.pc = "await_ec2"
    /\ ec2.pc = "done"
    /\ ctl' = [ctl EXCEPT !.pc = "returned",
                          !.result = [status |-> ec2.result.status,
                                      message |-> ec2.result.message,
                                      existing |-> ec2.result.existing,
                                      logs |-> FALSE]]
    /\ UNCHANGED <<cloud, vm, web, ec2, gen, invocations, history, callers>>

CtlStep ==
    \/ CtlDispatch
    \/ CtlReturnVm
    \/ CtlReturnWebApp
    \/ CtlReturnEc2

\* -------------------------------------------------- DeploymentController.run

\* what the language model answers to the routing prompt: nothing (the API
\* call fails), text that is not JSON, or a JSON object
Reply(kind, val) == [kind |-> kind, val |-> val]

RouterPlan(platform, type) ==
    [cloud_platform |-> platform, deployment_type |-> type,
     estimated_cost |-> "per-month"]

OracleReplies ==
    {Reply("failure", EmptyDict), Reply("text", EmptyDict)}
    \cup {Reply("json", d) : d \in
            {RouterPlan("Azure", "vm"), RouterPlan("Azure", "webapp"),
             RouterPlan("AWS", "ec2"), RouterPlan("GCP", "vm"),
             RouterPlan("Azure", "ec2"), RouterPlan("AWS", "vm"),
             RouterPlan("Oracle", "lambda"),
             [cloud_platform |-> "Azure"], [deployment_type |-> "vm"], EmptyDict,
             Put(RouterPlan("Azure", "vm"), "parameters", UserVm),
             Put(RouterPlan("Azure", "webapp"), "parameters", UserWeb)}}

\* a variant that answers a default plan when the reply cannot be parsed
determine_deployment_plan_Default(reply) ==
    CASE reply.kind = "failure" -> [out |-> "raised", val |-> EmptyDict]
      [] reply.kind = "text" ->
            [out |-> "dict", val |-> Put(RouterPlan("Azure", "vm"), "parameters", UserVm)]
      [] OTHER -> [out |-> "dict", val |-> reply.val]

\* determine_deployment_plan: the parsed reply, None when it is not JSON; an
\* exception of the API call is not caught here
determine_deployment_plan(reply) ==
    CASE reply.kind = "failure" -> [out |-> "raised", val |-> EmptyDict]
      [] reply.kind = "text" -> [out |-> "None", val |-> EmptyDict]
      [] OTHER -> [out |-> "dict", val |-> reply.val]

RunIdle ==
    [pc |-> "idle", reply |-> Reply("", EmptyDict),
     deployment_plan |-> [out |-> "None", val |-> EmptyDict],
     result |-> [status |-> "none", message |-> "", execution_result |-> CtlIdle.result]]

RunReturn(r, status, message, execution_result) ==
    [r EXCEPT !.pc = "done",
              !.result = [status |-> status, message |-> message,
                          execution_result |-> execution_result]]

\* run() is called; the user types a request and the model replies to it
RunStart(reply) ==
    /\ Call
    /\ run' = [RunIdle EXCEPT !.pc = "classify", !.reply = reply]
    /\ ctl' = CtlIdle
    /\ vm' = [t \in AllSessions |-> VmIdle]
    /\ web' = WebIdle
    /\ ec2' = Ec2Idle
    /\ UNCHANGED <<gen, ui, review, retry, infra, api>>

\* lines 184-196: the plan is determined and handed to execute_deployment
RunClassify ==
    /\ run.pc = "classify"
    /\ LET plan == determine_deployment_plan(run.reply)
           r == [run EXCEPT !.deployment_plan = plan]
       IN IF plan.out = "raised"
          THEN run' = RunReturn(r, "error", "APIError", CtlIdle.result) /\ UNCHANGED ctl
          ELSE IF plan.out = "None" \/ plan.val = EmptyDict
          THEN run' = RunReturn(r, "error", "Failed to analyze request", CtlIdle.result)
               /\ UNCHANGED ctl
          ELSE /\ run' = [r EXCEPT !.pc = "execute"]
               /\ ctl' = [CtlIdle EXCEPT !.pc = "dispatch", !.plan = plan.val]
    /\ UNCHANGED <<cloud, vm, web, ec2, gen, ui, review, retry, infra, invocations, history, api>>

\* lines 196-210: the result of execute_deployment is wrapped, an exception
\* becomes an error result
RunFinish ==
    /\ run.pc = "execute"
    /\ ctl.pc \in {"returned", "raised"}
    /\ run' = IF ctl.pc = "returned"
              THEN RunReturn(run, "success", "", ctl.result)
              ELSE RunReturn(run, "error", ctl.exception, CtlIdle.result)
    /\ UNCHANGED <<cloud, vm, web, ec2, ctl, gen, ui, review, retry, infra, invocations, history, api>>

\* ------------------------------------------- the deployment tab of the UI

\* st.session_state is a dict.  The plan it holds is what the router returned
\* ({} before); a deployment result of None is the result with status "none".

\* app.py lines 10-17, streamlit.py lines 17-30: the top of the script gives
\* every key that is absent its default, on every run of the script
initialise(impl, st) ==
    LET base == [params |-> EmptyDict, plan |-> [out |-> "dict", val |-> EmptyDict], params_collected |-> FALSE,
                 deployment_result |-> CtlIdle.result]
        defaults == IF impl = "app" THEN base
                    ELSE Put(Put(Put(base, "deployment_logs", <<>>),
                                 "show_thought_process", FALSE),
                             "show_parameters", FALSE)
    IN [k \in DOMAIN st \cup DOMAIN defaults |->
           IF k \in DOMAIN st THEN st[k] ELSE defaults[k]]

\* del st.session_state[key] for the keys that are present
Delete(st, keys) == [k \in DOMAIN st \ keys |-> st[k]]

UiFresh(impl) ==
    [impl |-> impl, pc |-> "idle", last |-> "open", state |-> initialise(impl, EmptyDict)]

\* 'Generate Deployment Plan' with a request typed in
UiGeneratePlan(reply) ==
    /\ ui.pc = "idle"
    /\ LET plan == determine_deployment_plan(reply)
           st1 == Put(ui.state, "plan", plan)
           st2 == IF ui.impl = "app" THEN st1
                  ELSE Put(Put(st1, "show_thought_process", TRUE), "show_parameters", TRUE)
           keys_to_clear == {"params", "params_collected", "deployment_result",
                             "deployment_logs"}
       IN ui' = IF plan.out = "raised"
                THEN [ui EXCEPT !.last = "generate_plan"]
                ELSE [ui EXCEPT !.last = "generate_plan",
                                !.state = initialise(ui.impl, Delete(st2, keys_to_clear))]
    /\ UNCHANGED <<cloud, vm, web, ec2, ctl, gen, run, review, retry, infra, invocations, history, api>>

\* what 'Confirm Parameters' reads from the form of a deployment type
FormParams(deployment_type) ==
    CASE deployment_type = "ec2" ->
            {[instance_name |-> "my-ec2-instance", instance_type |-> "t2.micro",
              ami_id |-> "ami-0c55b159cbfafe1f0", key_pair_name |-> None]}
      [] deployment_type = "vm" ->
            {Put(UserVm, "admin_password", pw) : pw \in {"", "SecurePass123!"}}
      [] deployment_type = "webapp" -> {UserWeb}
      [] OTHER -> {}

\* 'Confirm Parameters' in the form of the plan's deployment type; the form is
\* drawn when st.session_state.get('plan') is truthy
UiConfirmParameters(params) ==
    /\ ui.pc = "idle"
    /\ ui.state["plan"].out = "dict" /\ ui.state["plan"].val # EmptyDict
    /\ ~ui.state["params_collected"]
    /\ ui.impl = "streamlit" => ui.state["show_parameters"]
    /\ Has(ui.state["plan"].val, "deployment_type")
    /\ LET deployment_type == lower(ui.state["plan"].val["deployment_type"]) IN
       /\ params \in FormParams(deployment_type)
       /\ ui' = IF deployment_type = "vm" /\ params["admin_password"] = ""
                THEN [ui EXCEPT !.last = "password_required"]
                ELSE [ui EXCEPT !.last = "confirm_parameters",
                                !.state = Put(Put(@, "params", params),
                                              "params_collected", TRUE)]
    /\ UNCHANGED <<cloud, vm, web, ec2, ctl, gen, run, review, retry, infra, invocations, history, api>>

\* update_logs
UiLogged(st, message) ==
    Put(st, "deployment_logs", Append(Get(st, "deployment_logs", <<>>), message))

\* the deployment section up to the call of execute_deployment
UiDeployBegin ==
    /\ ui.state["params_collected"]
    /\ ui.state["deployment_result"].status = "none"
    /\ Call
    /\ vm' = [t \in AllSessions |-> VmIdle]
    /\ web' = WebIdle
    /\ ec2' = Ec2Idle
    /\ LET plan == ui.state["plan"].val
           st1 == UiLogged(ui.state, "Initializing deployment workflow...")
       IN IF ~({"deployment_type", "cloud_platform"} \subseteq DOMAIN plan)
          THEN /\ ui' = [ui EXCEPT !.last = "deploy",
                           !.state = Put(UiLogged(st1, "Deployment error"),
                                         "deployment_result",
                                         [CtlIdle.result EXCEPT !.status = "error",
                                                                !.message = "KeyError"])]
               /\ ctl' = CtlIdle
          ELSE /\ ui' = [ui EXCEPT !.pc = "deploying",
                           !.state = IF lower(plan["deployment_type"]) \in {"vm", "ec2", "webapp"}
                                     THEN UiLogged(st1, "Starting deployment workflow...")
                                     ELSE st1]
               /\ ctl' = [CtlIdle EXCEPT !.pc = "dispatch",
                            !.plan = Plan(plan["cloud_platform"], plan["deployment_type"],
                                          ui.state["params"])]
    /\ UNCHANGED <<gen, run, review, retry, infra, api>>

\* the deployment section after execute_deployment: the result is stored, an
\* exception is stored as an error result
UiDeployEnd ==
    /\ ui.pc = "deploying"
    /\ ctl.pc \in {"returned", "raised"}
    /\ LET result == IF ctl.pc = "returned" THEN ctl.result
                     ELSE [CtlIdle.result EXCEPT !.status = "error",
                                                 !.message = ctl.exception]
           message == IF ctl.pc = "raised" THEN "Deployment error"
                      ELSE IF result.status = "success"
                      THEN "Deployment completed successfully!"
                      ELSE "Deployment failed"
       IN ui' = [ui EXCEPT !.pc = "idle", !.last = "deploy",
                           !.state = UiLogged(Put(@, "deployment_result", result), message)]
    /\ UNCHANGED <<cloud, vm, web, ec2, ctl, gen, run, review, retry, infra, invocations, history, api>>

\* a variant that leaves the parameters and the logs in place
keys_to_clear_Partial(impl) == {"plan", "params_collected", "deployment_result"}

\* a variant that leaves the confirmation of the parameters in place
keys_to_clear_KeepsConfirmation(impl) ==
    {"plan", "params", "deployment_result", "deployment_logs"}
    \cup (IF impl = "app" THEN {} ELSE {"show_thought_process", "show_parameters"})

\* app.py line 310, streamlit.py lines 320-324
keys_to_clear(impl) ==
    {"plan", "params", "params_collected", "deployment_result", "deployment_logs"}
    \cup (IF impl = "app" THEN {} ELSE {"show_thought_process", "show_parameters"})

\* 'Start New Deployment'
UiReset ==
    /\ ui.pc = "idle"
    /\ ui.state["deployment_result"].status # "none"
    /\ ui' = [ui EXCEPT !.last = "reset",
                        !.state = initialise(ui.impl, Delete(@, keys_to_clear(ui.impl)))]
    /\ UNCHANGED <<cloud, vm, web, ec2, ctl, gen, run, review, retry, infra, invocations, history, api>>

\* ------------------------------------------------------ the plan-review loop

\* A plan text is a sequence of lines; a line is its leading marker and the
\* rest of it.
Line(lead, body) == [lead |-> lead, body |-> body]

\* a plan with a 'Deployment Sequence' section that holds the items
Sequenced(items) ==
    <<Line("# ", "Deployment Plan"), Line("## ", "Deployment Sequence"),
      Line("- ", "Ordered list of resources to deploy")>>
    \o items \o <<Line("## ", "Notes")>>

\* what the language model writes as a deployment plan
PlanTexts ==
    {Sequenced(<<Line("- ", "ResourceGroup"), Line("  - ", "Dependencies: none")>>),
     Sequenced(<<Line("- ", "ResourceGroup"), Line("1. ", "VirtualNetwork")>>),
     Sequenced(<<>>),
     <<Line("# ", "Deployment Plan"), Line("", "Create the resources")>>,
     <<Line("## ", "Deployment Sequence"),
       Line("- ", "Ordered list of resources to deploy"), Line("- ", "ResourceGroup")>>,
     <<Line("## ", "Deployment Sequence"), Line("- ", "ResourceGroup"),
       Line("- ", "Dependencies: none")>>,
     <<Line("## ", "Deployment Sequence"), Line("## ", "Notes")>>,
     <<>>}

\* a variant that looks for no section and reads the items from every line
extract_resources_from_plan_Unanchored(plan_markdown) ==
    LET resource(x) == x # "" /\ x \notin {"Dependencies: none", "Dependencies"}
    IN SelectSeq([k \in 1..Len(plan_markdown) |-> plan_markdown[k].body], resource)

\* lines 205-220 of plan_generation_agent.py: the lines between the heading
\* with its 'Ordered list' line and the next '##', stripped of '-' and ' ',
\* without the empty ones and those that start with 'Dependencies'
extract_resources_from_plan(plan_markdown) ==
    LET n == Len(plan_markdown)
        heading(i) == plan_markdown[i].lead \in {"## ", "### "}
        match(i) == /\ heading(i)
                    /\ plan_markdown[i].body = "Deployment Sequence"
                    /\ plan_markdown[i + 1].lead \in {"- ", "-"}
                    /\ plan_markdown[i + 1].body = "Ordered list of resources to deploy"
                    /\ \E j \in (i + 2)..n : heading(j)
        starts == {i \in 1..(n - 1) : match(i)}
        first == CHOOSE i \in starts : \A k \in starts : i <= k
        ends == {j \in (first + 2)..n : heading(j)}
        last == CHOOSE j \in ends : \A k \in ends : j <= k
        strip(l) == IF l.lead \in {"", "-", "- ", "  - "} THEN l.body
                    ELSE l.lead \o l.body
        sequence_text == [k \in 1..(last - first - 2) |-> strip(plan_markdown[first + 1 + k])]
        resource(x) == x # "" /\ x \notin {"Dependencies: none", "Dependencies"}
    IN IF starts = {} THEN <<>> ELSE SelectSeq(sequence_text, resource)

\* A reply of the model to the script prompt is a sequence of pieces: a fence
\* marker (three backquotes, here <fence>, with or without the word python), a
\* blank, or a run of other text.
ScriptOutputs ==
    {<<"import pulumi">>,
     <<"<fence>python", " ", "import pulumi", " ", "<fence>">>,
     <<" ", "Here is the script:", "<fence>python", "import pulumi", "<fence>", "Review it.">>,
     <<"<fence>", "import pulumi", "<fence>">>}

\* lines 134-136 of plan_generation_agent.py: response.strip(), and when it
\* holds a python fence, what lies between the first one and the next fence
\* marker, stripped
strip_code_fence(response) ==
    LET strip(s) ==
            LET inked == {i \in 1..Len(s) : s[i] # " "}
            IN IF inked = {} THEN <<>>
               ELSE SubSeq(s, CHOOSE i \in inked : \A k \in inked : i <= k,
                              CHOOSE i \in inked : \A k \in inked : i >= k)
        code == strip(response)
        opens == {i \in 1..Len(code) : code[i] = "<fence>python"}
        first == CHOOSE i \in opens : \A k \in opens : i <= k
        marks == {j \in (first + 1)..Len(code) : code[j] \in {"<fence>", "<fence>python"}}
        end == IF marks = {} THEN Len(code) + 1
               ELSE CHOOSE j \in marks : \A k \in marks : j <= k
    IN IF opens = {} THEN code ELSE strip(SubSeq(code, first + 1, end - 1))

\* plan is the local variable of architect.main, st.session_state.plan in
\* streamlit.py; deployment_plan is the attribute of the planner; latest is
\* the text the model wrote last; script is the content of scripts/__main__.py;
\* answers are the three names as they were given to the last approval
ReviewIdle(impl) ==
    [impl |-> impl, pc |-> "start", plan |-> <<>>, deployment_plan |-> <<>>,
     latest |-> <<>>, script |-> [resources |-> <<>>, naming_convention |-> <<>>, code |-> <<>>], written |-> FALSE, last |-> "",
     wrote |-> FALSE, resources |-> <<>>, answers |-> <<>>]

\* the review prompt is open: the console loop is at get_human_feedback, the
\* form of streamlit.py is shown (a plan is stored)
AtReview ==
    /\ review.pc = "review"
    /\ review.impl = "streamlit" => review.plan # <<>>

\* generate_deployment_plan before the loop; in streamlit.py the button
\* 'Analyze & Generate Deployment Plan', at any time
ReviewStart(reply) ==
    /\ review.pc = "start" \/ (review.impl = "streamlit" /\ review.pc = "review")
    /\ review' =
         IF reply.kind = "failure"
         THEN [review EXCEPT !.last = "error", !.wrote = FALSE,
                             !.pc = IF review.impl = "streamlit" THEN @ ELSE "done"]
         ELSE [review EXCEPT !.pc = "review", !.last = "generate", !.wrote = FALSE,
                             !.plan = reply.val, !.latest = reply.val,
                             !.deployment_plan = IF review.impl = "streamlit" THEN @
                                                 ELSE reply.val]
    /\ UNCHANGED <<cloud, vm, web, ec2, ctl, gen, run, ui, retry, infra, invocations, history, api>>

\* a variant that reads the attribute of the planner in every implementation
plan_at_approval_Attribute(r) == r.deployment_plan

\* the plan text an approval extracts the resources from: architect.py line
\* 63, plan_generation_agent.py line 258, streamlit.py line 438
plan_at_approval(r) == IF r.impl = "planner" THEN r.deployment_plan ELSE r.plan

\* a variant that always takes the default names
naming_convention_Defaults(impl, environment, application_name, location) ==
    <<"<resourcetype>", "prod", "aumanager", "EastUS">>

\* the console asks for the three names and takes a default for an empty
\* answer; the form of streamlit.py takes what the fields hold
naming_convention(impl, environment, application_name, location) ==
    LET given(x, default) == IF impl # "streamlit" /\ x = "" THEN default ELSE x
    IN <<"<resourcetype>", given(environment, "prod"),
         given(application_name, "aumanager"), given(location, "EastUS")>>

\* choice 1, 'Approve and generate Pulumi script': generate_pulumi_script is
\* called with the resources extracted from the plan, whatever they are, and
\* writes the reply of the model, unfenced and under two comment lines, to
\* scripts/__main__.py (lines 137-138)
ReviewApprove(environment, application_name, location, reply) ==
    /\ AtReview
    /\ LET parsed_resources == extract_resources_from_plan(plan_at_approval(review))
           script == [resources |-> parsed_resources,
                      naming_convention |->
                          naming_convention(review.impl, environment,
                                            application_name, location),
                      code |-> <<"# AUTO-GENERATED BY AZURE OPENAI",
                                 "# REVIEW BEFORE DEPLOYMENT">>
                               \o strip_code_fence(reply.val)]
           answers == <<environment, application_name, location>>
       IN review' =
            IF reply.kind # "failure"
            THEN [review EXCEPT !.last = "approve", !.wrote = TRUE, !.written = TRUE,
                                !.script = script, !.resources = parsed_resources,
                                !.answers = answers,
                                !.pc = IF review.impl = "streamlit" THEN @ ELSE "done"]
            ELSE [review EXCEPT !.last = "error", !.wrote = FALSE,
                                !.resources = parsed_resources, !.answers = answers,
                                !.pc = IF review.impl = "streamlit" THEN @ ELSE "done"]
    /\ UNCHANGED <<cloud, vm, web, ec2, ctl, gen, run, ui, retry, infra, invocations, history, api>>

\* a variant in which a failure of the call ends the console loop
ReviewModify_FailureEnds(feedback, reply) ==
    /\ AtReview
    /\ review' =
         IF feedback = ""
         THEN [review EXCEPT !.last = "no_feedback", !.wrote = FALSE]
         ELSE IF reply.kind = "failure"
         THEN [review EXCEPT !.last = "modify_failed", !.wrote = FALSE,
                             !.pc = IF review.impl = "streamlit" THEN @ ELSE "done"]
         ELSE IF review.impl = "planner"
         THEN [review EXCEPT !.last = "modify", !.wrote = FALSE,
                             !.deployment_plan = reply.val, !.latest = reply.val]
         ELSE [review EXCEPT !.last = "modify", !.wrote = FALSE,
                             !.plan = reply.val, !.latest = reply.val]
    /\ UNCHANGED <<cloud, vm, web, ec2, ctl, gen, run, ui, retry, infra, invocations, history, api>>

\* choice 2, 'Request modifications': with feedback, the model is asked for an
\* updated plan; a failure of the call leaves the plan as it is
ReviewModify(feedback, reply) ==
    /\ AtReview
    /\ review' =
         IF feedback = ""
         THEN [review EXCEPT !.last = "no_feedback", !.wrote = FALSE]
         ELSE IF reply.kind = "failure"
         THEN [review EXCEPT !.last = "modify_failed", !.wrote = FALSE]
         ELSE IF review.impl = "planner"
         THEN [review EXCEPT !.last = "modify", !.wrote = FALSE,
                             !.deployment_plan = reply.val, !.latest = reply.val]
         ELSE [review EXCEPT !.last = "modify", !.wrote = FALSE,
                             !.plan = reply.val, !.latest = reply.val]
    /\ UNCHANGED <<cloud, vm, web, ec2, ctl, gen, run, ui, retry, infra, invocations, history, api>>

\* a variant in which Exit writes a script without resources
ReviewExit_Writes ==
    /\ AtReview
    /\ review' = [review EXCEPT !.last = "exit", !.wrote = TRUE, !.written = TRUE,
                                !.script = ReviewIdle(review.impl).script,
                                !.pc = IF review.impl = "streamlit" THEN @ ELSE "done"]
    /\ UNCHANGED <<cloud, vm, web, ec2, ctl, gen, run, ui, retry, infra, invocations, history, api>>

\* choice 3, 'Exit': the console loop ends; streamlit.py shows a warning and
\* the form stays
ReviewExit ==
    /\ AtReview
    /\ review' = [review EXCEPT !.last = "exit", !.wrote = FALSE,
                                !.pc = IF review.impl = "streamlit" THEN @ ELSE "done"]
    /\ UNCHANGED <<cloud, vm, web, ec2, ctl, gen, run, ui, retry, infra, invocations, history, api>>

\* ------------------------------------------------- the calls of the model

\* slept and failures record the waits made and the failures met, in order
RetryIdle ==
    [pc |-> "idle", caller |-> "", attempt |-> 0, retry_delay |-> 2, slept |-> <<>>,
     failures |-> <<>>, raised |-> "", content |-> ""]

\* line 39
max_retries == 3

\* generate_deployment_plan, generate_pulumi_script or a modification request
\* calls _call_openai_with_retry(prompt, ...)
RetryInvoke(caller) ==
    /\ retry.pc = "idle"
    /\ retry' = [RetryIdle EXCEPT !.pc = "create", !.caller = caller]
    /\ UNCHANGED <<cloud, vm, web, ec2, ctl, gen, run, ui, review, infra, invocations,
                   history, api>>

\* lines 42-74: one turn of the loop.  chat.completions.create answers, or
\* fails with APIConnectionError, RateLimitError or APIStatusError
RetryAttempt(outcome, content) ==
    /\ retry.pc = "create"
    /\ retry.attempt < max_retries
    /\ LET last == retry.attempt = max_retries - 1
           failed == [retry EXCEPT !.failures = Append(@, outcome)]
           again == [failed EXCEPT !.attempt = @ + 1, !.slept = Append(@, retry.retry_delay)]
       IN retry' =
            CASE outcome = "ok" ->
                   [retry EXCEPT !.pc = "returned", !.content = content]
              [] outcome = "APIConnectionError" ->
                   IF last THEN [failed EXCEPT !.pc = "raised", !.raised = "ConnectionError"]
                   ELSE [again EXCEPT !.retry_delay = @ * 2]
              [] outcome = "RateLimitError" ->
                   IF last THEN [failed EXCEPT !.pc = "raised", !.raised = "RuntimeError"]
                   ELSE again
              [] OTHER ->
                   [failed EXCEPT !.pc = "raised", !.raised = "RuntimeError"]
    /\ UNCHANGED <<cloud, vm, web, ec2, ctl, gen, run, ui, review, infra, invocations,
                   history, api>>

\* --------------------------------------------------- deploy_infrastructure

\* result is the dict returned; log is what deployment_error.log holds; ran
\* records the commands run and their exit codes, in order, and listed the
\* lines that pulumi stack ls printed
InfraIdle ==
    [pc |-> "idle", config |-> EmptyDict, step |-> 0, stack_exists |-> FALSE,
     failed |-> "", output |-> "", error_msg |-> "", log |-> "", result |-> EmptyDict,
     ran |-> <<>>, listed |-> <<>>]

\* line 63: the name of the stack, as the pieces the f-string joins
stack_name(config) == <<config["environment"], "-", config["application_name"]>>

\* str.find(sub) != -1 on the text of the lines: a line holds sub as a run of
\* consecutive pieces (sub holds no line break)
find(lines, sub) ==
    \E l \in 1..Len(lines) : \E i \in 0..(Len(lines[l]) - Len(sub)) :
        SubSeq(lines[l], i + 1, i + Len(sub)) = sub

\* the commands run in order, each named by its second word and what it
\* acts on (lines 66, 79-81, 100-158, 168); "-c" (the import of an installed
\* package), "ls" and "up" are run without check
commands(stack_exists) ==
    <<"-m venv", "-m pip pulumi", "-c pulumi", "-m pip pulumi-azure-native",
      "-c pulumi_azure_native", "-m pip pulumi-random", "-c pulumi_random",
      "stack ls", IF stack_exists THEN "stack select" ELSE "stack init",
      "config environment", "config application_name", "config location",
      "plugin azure-native", "plugin random", "up">>

\* e.cmd[1] of a command
second_word(cmd) ==
    CASE cmd \in {"-m venv", "-m pip pulumi", "-m pip pulumi-azure-native",
                  "-m pip pulumi-random"} -> "-m"
      [] cmd \in {"stack ls", "stack select", "stack init"} -> "stack"
      [] cmd \in {"config environment", "config application_name", "config location"} ->
           "config"
      [] cmd \in {"plugin azure-native", "plugin random"} -> "plugin"
      [] OTHER -> "up"

\* except Exception (lines 201-207)
InfraUnexpected(i, details) ==
    [i EXCEPT !.pc = "returned",
              !.result = [status |-> "error", message |-> "Unexpected deployment error",
                          details |-> details]]

\* a caller calls deploy_infrastructure(pulumi_dir, config, azure_creds)
InfraInvoke(config) ==
    /\ infra.pc = "idle"
    /\ infra' = [InfraIdle EXCEPT !.pc = "start", !.config = config]
    /\ UNCHANGED <<cloud, vm, web, ec2, ctl, gen, run, ui, review, retry, invocations,
                   history, api>>

\* lines 57-63: get_pulumi_path finds the executable or raises, stack_name
\* reads two keys of config
InfraStart(found) ==
    /\ infra.pc = "start"
    /\ infra' =
         IF ~found THEN InfraUnexpected(infra, "Pulumi CLI not found")
         ELSE IF ~({"environment", "application_name"} \subseteq DOMAIN infra.config)
         THEN InfraUnexpected(infra, "KeyError")
         ELSE [infra EXCEPT !.pc = "run", !.step = 1]
    /\ UNCHANGED <<cloud, vm, web, ec2, ctl, gen, run, ui, review, retry, invocations,
                   history, api>>

\* a command run and its exit code
Ran(cmd, exit) == [cmd |-> cmd, exit |-> exit]

\* subprocess.run(..., check=True) without capture_output: the command writes
\* to the terminal, and a CalledProcessError holds neither stdout nor stderr;
\* config set of the location reads config["location"]
InfraChecked(exit) ==
    /\ infra.pc = "run"
    /\ LET cmd == commands(infra.stack_exists)[infra.step]
           ran == [infra EXCEPT !.ran = Append(@, Ran(cmd, exit))]
       IN /\ cmd \notin {"-c pulumi", "-c pulumi_azure_native", "-c pulumi_random",
                         "stack ls", "up"}
          /\ infra' =
               IF cmd = "config location" /\ ~Has(infra.config, "location")
               THEN InfraUnexpected(infra, "KeyError")
               ELSE IF exit = 0 THEN [ran EXCEPT !.step = @ + 1]
               ELSE [ran EXCEPT !.pc = "handle", !.failed = cmd,
                                !.output = cmd \o ": error", !.error_msg = None]
    /\ UNCHANGED <<cloud, vm, web, ec2, ctl, gen, run, ui, review, retry, invocations,
                   history, api>>

\* lines 37-51 and 81-82, verify_package_installation: the import is run
\* without check, so no CalledProcessError is raised whatever its exit code,
\* True is returned and line 82 is not reached
InfraVerify(exit) ==
    /\ infra.pc = "run"
    /\ LET cmd == commands(infra.stack_exists)[infra.step]
       IN /\ cmd \in {"-c pulumi", "-c pulumi_azure_native", "-c pulumi_random"}
          /\ infra' = [infra EXCEPT !.step = @ + 1, !.ran = Append(@, Ran(cmd, exit))]
    /\ UNCHANGED <<cloud, vm, web, ec2, ctl, gen, run, ui, review, retry, invocations,
                   history, api>>

\* lines 100-106: pulumi stack ls, unchecked; the stack exists when its name
\* is found in what the command printed
InfraStackLs(exit, stdout) ==
    /\ infra.pc = "run"
    /\ commands(infra.stack_exists)[infra.step] = "stack ls"
    /\ infra' = [infra EXCEPT !.step = @ + 1, !.listed = stdout,
                              !.stack_exists = find(stdout, stack_name(infra.config)),
                              !.ran = Append(@, Ran("stack ls", exit))]
    /\ UNCHANGED <<cloud, vm, web, ec2, ctl, gen, run, ui, review, retry, invocations,
                   history, api>>

\* lines 168-183: pulumi up with capture_output; a non-zero exit is raised as
\* CalledProcessError with stdout and stderr, and error_msg is
\* e.stderr or e.stdout (line 186)
InfraUp(exit, stdout, stderr) ==
    /\ infra.pc = "run"
    /\ commands(infra.stack_exists)[infra.step] = "up"
    /\ infra' =
         IF exit = 0
         THEN [infra EXCEPT !.pc = "returned", !.result = [status |-> "success"],
                            !.ran = Append(@, Ran("up", exit))]
         ELSE [infra EXCEPT !.pc = "handle", !.failed = "up",
                            !.output = stdout \o stderr,
                            !.error_msg = IF stderr # "" THEN stderr ELSE stdout,
                            !.ran = Append(@, Ran("up", exit))]
    /\ UNCHANGED <<cloud, vm, web, ec2, ctl, gen, run, ui, review, retry, invocations,
                   history, api>>

\* lines 185-199, except CalledProcessError: deployment_error.log is written
\* and the error dict returned; an OSError of the write leaves the function
InfraWriteLog(written) ==
    /\ infra.pc = "handle"
    /\ infra' =
         IF written
         THEN [infra EXCEPT
                 !.pc = "returned", !.log = infra.error_msg,
                 !.result = [status |-> "error",
                             message |-> "Deployment failed at step: "
                                         \o second_word(infra.failed),
                             details |-> infra.error_msg,
                             log_file |-> "deployment_error.log"]]
         ELSE [infra EXCEPT !.pc = "raised"]
    /\ UNCHANGED <<cloud, vm, web, ec2, ctl, gen, run, ui, review, retry, invocations,
                   history, api>>

\* -------------------------------------------------------- the HTTP endpoints

\* response is what the client gets: the status code, the detail of an error
\* and the body of a success
ApiIdle ==
    [pc |-> "idle", endpoint |-> "", request |-> EmptyDict,
     outcome |-> [kind |-> "", val |-> EmptyDict],
     response |-> [status_code |-> 0, detail |-> <<>>, body |-> EmptyDict]]

\* an exception: its class, and for an HTTPException its status code; detail
\* is its message
HTTPException(status_code, detail) ==
    [class |-> "HTTPException", status_code |-> status_code, detail |-> detail]

\* what orchestrator.run_pipeline or orchestrator.deploy_resources comes to:
\* it raises, or returns None or a dict
OrchestratorOutcomes ==
    {[kind |-> "raised", val |-> [class |-> c]] : c \in {"FileNotFoundError", "RuntimeError"}}
    \cup {[kind |-> "returned", val |-> d] : d \in
            {[status |-> "error", message |-> "OCR failed"],
             [status |-> "error", message |-> "Deployment failed"],
             [status |-> "error"],
             [status |-> "success", resources |-> "rg1"],
             [status |-> "Error", message |-> "Deployment failed"],
             [status |-> "warning", message |-> "partial"],
             [message |-> "done"]}}
    \cup {[kind |-> "None", val |-> EmptyDict]}

\* lines 26-39 and 48-57, the body of the try statement of either endpoint:
\* the exception it raises (class "" for none) and the value it returns
try_body(outcome) ==
    LET raises(e) == [raised |-> e, returned |-> EmptyDict]
        error(class) == [class |-> class, status_code |-> 0, detail |-> class]
    IN CASE outcome.kind = "raised" -> raises(error(outcome.val.class))
         [] outcome.kind = "None" -> raises(error("TypeError"))
         [] ~Has(outcome.val, "status") -> raises(error("KeyError"))
         [] outcome.val["status"] # "error" ->
              [raised |-> error(""), returned |-> outcome.val]
         [] ~Has(outcome.val, "message") -> raises(error("KeyError"))
         [] OTHER -> raises(HTTPException(400, outcome.val["message"]))

\* lines 41-42 and 59-60, except Exception as e: every exception of the try
\* body, HTTPException being a subclass of Exception, is raised again as an
\* HTTPException with status 500 and detail str(e)
except_Exception(e) == HTTPException(500, <<e.class, e.detail>>)

\* a client posts to /process-architecture or /deploy-template and the
\* endpoint calls the orchestrator
ApiRequest(endpoint, request) ==
    /\ api.pc \in {"idle", "responded"}
    /\ api' = [ApiIdle EXCEPT !.pc = "called", !.endpoint = endpoint, !.request = request]
    /\ UNCHANGED <<cloud, vm, web, ec2, ctl, gen, run, ui, review, retry, infra,
                   invocations, history>>

\* the orchestrator returns or raises and the endpoint ends: the framework
\* answers an HTTPException with its status code and detail, a returned value
\* with status 200
ApiRespond(outcome) ==
    /\ api.pc = "called"
    /\ LET out == try_body(outcome)
           e == except_Exception(out.raised)
       IN api' = [api EXCEPT
                    !.pc = "responded", !.outcome = outcome,
                    !.response =
                        IF out.raised.class # ""
                        THEN [status_code |-> e.status_code, detail |-> e.detail,
                              body |-> EmptyDict]
                        ELSE [status_code |-> 200, detail |-> <<>>,
                              body |-> out.returned]]
    /\ UNCHANGED <<cloud, vm, web, ec2, ctl, gen, run, ui, review, retry, infra,
                   invocations, history>>

\* ------------------------------------------------------------ specification

vars == <<cloud, vm, web, ec2, ctl, gen, run, ui, review, retry, infra, api, invocations,
          history>>

\* the provider agents, called directly and one after another by one caller
Init ==
    \* the clouds an invocation can find: a resource lives in its group, a
    \* subnet in its network
    /\ cloud \in {c \in SUBSET InitialResources :
                    /\ \A r \in c : r[1] # "rg" => <<"rg", r[2]>> \in c
                    /\ \A r \in c : r[1] = "subnet" => <<"vnet", r[2], r[3]>> \in c}
    /\ vm = [s \in AllSessions |-> VmIdle]
    /\ web = WebIdle
    /\ ec2 = Ec2Idle
    /\ ctl = CtlIdle
    /\ gen = GenIdle
    /\ run = RunIdle
    /\ ui = UiFresh("app")
    /\ review = ReviewIdle("architect")
    /\ retry = RetryIdle
    /\ infra = InfraIdle
    /\ api = ApiIdle
    /\ invocations = 0
    /\ history = [vm |-> NoCall, web |-> NoCall, ec2 |-> NoCall]

Next ==
    \/ \E a \in VMArgs : VmInvoke(1, a)
    \/ VmStep(1)
    \/ \E p \in WebArgs : WebInvoke(p)
    \/ WebStep
    \/ \E p \in EC2Args : Ec2Invoke(p)
    \/ Ec2Step

Spec == Init /\ [][Next]_vars

\* the parameter generators, applied to keyword arguments
InitGen ==
    /\ cloud = {}
    /\ vm = [s \in AllSessions |-> VmIdle]
    /\ web = WebIdle
    /\ ec2 = Ec2Idle
    /\ ctl = CtlIdle
    /\ run = RunIdle
    /\ ui = UiFresh("app")
    /\ review = ReviewIdle("architect")
    /\ retry = RetryIdle
    /\ infra = InfraIdle
    /\ api = ApiIdle
    /\ \E kind \in {"vm", "webapp", "ec2"} : \E kw \in GenInputs(kind) :
         gen = [GenIdle EXCEPT !.pc = "ready", !.kind = kind, !.kwargs = kw]
    /\ invocations = 0
    /\ history = [vm |-> NoCall, web |-> NoCall, ec2 |-> NoCall]

NextGen ==
    \/ GenerateVm
    \/ GenerateWebApp
    \/ GenerateEc2

SpecGen == InitGen /\ [][NextGen]_vars

\* execute_deployment, called by one caller, with the agents it dispatches to
NextCtl ==
    \/ \E plan \in Plans : CtlExecute(plan)
    \/ CtlStep
    \/ VmStep(1)
    \/ WebStep
    \/ Ec2Step

SpecCtl == Init /\ [][NextCtl]_vars

\* run(), called by one caller, with execute_deployment and the agents
NextRun ==
    \/ \E reply \in OracleReplies : RunStart(reply)
    \/ RunClassify
    \/ RunFinish
    \/ CtlStep
    \/ VmStep(1)
    \/ WebStep
    \/ Ec2Step

SpecRun == Init /\ [][NextRun]_vars

\* the deployment tab, used by one user, with execute_deployment and the
\* agents, on an empty subscription or one that holds the machine already
InitUi ==
    /\ cloud \in {{}, InitialResources}
    /\ vm = [s \in AllSessions |-> VmIdle]
    /\ web = WebIdle
    /\ ec2 = Ec2Idle
    /\ ctl = CtlIdle
    /\ gen = GenIdle
    /\ run = RunIdle
    /\ ui \in {UiFresh("app"), UiFresh("streamlit")}
    /\ review = ReviewIdle("architect")
    /\ retry = RetryIdle
    /\ infra = InfraIdle
    /\ api = ApiIdle
    /\ invocations = 0
    /\ history = [vm |-> NoCall, web |-> NoCall, ec2 |-> NoCall]

NextUi ==
    \/ \E reply \in OracleReplies : UiGeneratePlan(reply)
    \/ \E params \in UNION {FormParams(t) : t \in {"ec2", "vm", "webapp"}} :
          UiConfirmParameters(params)
    \/ UiDeployBegin
    \/ UiDeployEnd
    \/ UiReset
    \/ CtlStep
    \/ VmStep(1)
    \/ WebStep
    \/ Ec2Step

SpecUi == InitUi /\ [][NextUi]_vars

\* the plan-review loop of each of the three programs, with one reviewer
InitReview ==
    /\ cloud = {}
    /\ vm = [s \in AllSessions |-> VmIdle]
    /\ web = WebIdle
    /\ ec2 = Ec2Idle
    /\ ctl = CtlIdle
    /\ gen = GenIdle
    /\ run = RunIdle
    /\ ui = UiFresh("streamlit")
    /\ review \in {ReviewIdle(impl) : impl \in {"architect", "planner", "streamlit"}}
    /\ retry = RetryIdle
    /\ infra = InfraIdle
    /\ api = ApiIdle
    /\ invocations = 0
    /\ history = [vm |-> NoCall, web |-> NoCall, ec2 |-> NoCall]

NextReview ==
    \/ \E reply \in {Reply("failure", <<>>)} \cup {Reply("text", t) : t \in PlanTexts} :
          \/ ReviewStart(reply)
          \/ \E feedback \in {"", "add a network"} : ReviewModify(feedback, reply)
    \/ \E names \in {<<"", "", "">>, <<"dev", "", "WestEurope">>,
                       <<"dev", "shop", "WestEurope">>},
          reply \in {Reply("failure", <<>>)} \cup {Reply("text", o) : o \in ScriptOutputs} :
          ReviewApprove(names[1], names[2], names[3], reply)
    \/ ReviewExit

SpecReview == InitReview /\ [][NextReview]_vars

\* two sessions, each with an agent of its own, have called
\* deploy_from_parameters with the same names and run side by side
InitRace ==
    /\ cloud \in {{}, {RgOf(VMBase("rg1"))}}
    /\ vm = [s \in AllSessions |->
                [VmIdle EXCEPT !.pc = "validate", !.cloud0 = cloud,
                               !.arg = [form |-> "dict", val |-> VMBase("rg1")]]]
    /\ web = WebIdle
    /\ ec2 = Ec2Idle
    /\ ctl = CtlIdle
    /\ gen = GenIdle
    /\ run = RunIdle
    /\ ui = UiFresh("app")
    /\ review = ReviewIdle("architect")
    /\ retry = RetryIdle
    /\ infra = InfraIdle
    /\ api = ApiIdle
    /\ invocations = 2
    /\ history = [vm |-> NoCall, web |-> NoCall, ec2 |-> NoCall]

NextRace == \E s \in AllSessions : VmStep(s)

SpecRace == InitRace /\ [][NextRace]_vars

\* the planner and the deployment of its script, before any call
InitPlanner ==
    /\ cloud = {}
    /\ vm = [s \in AllSessions |-> VmIdle]
    /\ web = WebIdle
    /\ ec2 = Ec2Idle
    /\ ctl = CtlIdle
    /\ gen = GenIdle
    /\ run = RunIdle
    /\ ui = UiFresh("streamlit")
    /\ review = ReviewIdle("planner")
    /\ retry = RetryIdle
    /\ infra = InfraIdle
    /\ api = ApiIdle
    /\ invocations = 0
    /\ history = [vm |-> NoCall, web |-> NoCall, ec2 |-> NoCall]

\* the calls of the model made by the planner, one at a time
NextRetry ==
    \/ \E caller \in {"generate_deployment_plan", "generate_pulumi_script", "modify"} :
          RetryInvoke(caller)
    \/ \E outcome \in {"ok", "APIConnectionError", "RateLimitError", "APIStatusError"},
          content \in {"text", ""} :
          RetryAttempt(outcome, IF outcome = "ok" THEN content ELSE "")

SpecRetry == InitPlanner /\ [][NextRetry]_vars

\* what pulumi stack ls prints: nothing (it failed), the heading alone, the
\* stack of the config, and a stack whose name begins with that name
StackLsOutputs ==
    {<<>>,
     <<<<"NAME">>>>,
     <<<<"NAME">>, <<"prod", "-", "aumanager">>>>,
     <<<<"NAME">>, <<"prod", "-", "aumanager", "-", "v2">>>>,
     <<<<"NAME">>, <<"prod", "-", "aumanager", "-", "v2">>, <<"prod", "-", "aumanager">>>>}

\* deploy_infrastructure, called with a config
NextInfra ==
    \/ \E config \in {[environment |-> "prod", application_name |-> "aumanager",
                        location |-> "EastUS"],
                       [environment |-> "prod", application_name |-> "aumanager"],
                       [environment |-> "prod"]} :
          InfraInvoke(config)
    \/ \E found \in BOOLEAN : InfraStart(found)
    \/ \E exit \in {0, 1} : InfraChecked(exit)
    \/ \E exit \in {0, 1} : InfraVerify(exit)
    \/ \E stdout \in StackLsOutputs : InfraStackLs(IF stdout = <<>> THEN 1 ELSE 0, stdout)
    \/ \E exit \in {0, 1}, stdout \in {"", "Updating"}, stderr \in {"", "error: failed"} :
          InfraUp(exit, stdout, stderr)
    \/ \E written \in BOOLEAN : InfraWriteLog(written)

SpecInfra == InitPlanner /\ [][NextInfra]_vars

\* the runtime strings _validate_runtime is applied to: a stack, a separator
\* and a version, each of which may be missing
RuntimeStrings ==
    {SelectSeq(Runtime(stack, sep, version), LAMBDA x : x # "") :
        stack \in {"python", "node", "dotnet", "php", "ruby", "PYTHON", ""},
        sep \in {":", "|", ""},
        version \in {"3.9", "3.8", "16-lts", "18-lts", "6", "8", ""}}

InitRuntime ==
    /\ cloud = {}
    /\ vm = [s \in AllSessions |-> VmIdle]
    /\ web \in {[WebIdle EXCEPT !.pc = "validate_runtime", !.params = [runtime |-> r]] :
                   r \in RuntimeStrings}
    /\ ec2 = Ec2Idle
    /\ ctl = CtlIdle
    /\ gen = GenIdle
    /\ run = RunIdle
    /\ ui = UiFresh("app")
    /\ review = ReviewIdle("architect")
    /\ retry = RetryIdle
    /\ infra = InfraIdle
    /\ api = ApiIdle
    /\ invocations = 0
    /\ history = [vm |-> NoCall, web |-> NoCall, ec2 |-> NoCall]

NextRuntime ==
    \/ ValidateRuntime
    \/ ValidateAgain

SpecRuntime == InitRuntime /\ [][NextRuntime]_vars

\* the endpoints of api/main.py, called by one client at a time
NextApi ==
    \/ \E file \in {"diagram.png", "notes.txt"} :
          ApiRequest("process_architecture", [filename |-> file])
    \/ \E template_path \in {"template.json", ""}, resource_group \in RgNames,
          parameters \in {None, "params"} :
          ApiRequest("deploy_template",
                     [template_path |-> template_path, resource_group |-> resource_group,
                      parameters |-> parameters])
    \/ \E outcome \in OrchestratorOutcomes : ApiRespond(outcome)

SpecApi == InitPlanner /\ [][NextApi]_vars

\* ------------------------------------------------------------------ claims

\* the positions of a log that hold a create call
Creates(log) == {i \in DOMAIN log : log[i].op \in {"create", "begin"}}

\* a provider call of the log failed with something other than "not found"
Faulted(log) == \E i \in DOMAIN log : log[i].out = "error"

\* a provider call of the log raised
Raised(log) ==
    \E i \in DOMAIN log :
        log[i].out = "error" \/ (log[i].op # "check" /\ log[i].out = "notfound")

\* the call of session s has returned, and the VM agent's previous call had the
\* same VM parameters and returned success
SameVmCallAgain(s) ==
    /\ vm[s].pc = "done"
    /\ history.vm.result.status = "success"
    /\ history.vm.arg = vm[s].arg.val
    /\ vm[s].arg.val["deployment_type"] = "virtual_machine"

\* C1: a second deploy_from_parameters with the parameters of a first one that
\* returned success issues no create call, and returns success tagged
\* existing = true (unless the provider fails one of its reads)
C1_SecondCallIsExisting ==
    \A s \in AllSessions :
        SameVmCallAgain(s) =>
            /\ Creates(vm[s].log) = {}
            /\ ~Faulted(vm[s].log) =>
                   vm[s].result.status = "success" /\ vm[s].result.existing
            /\ vm[s].result.status = "success" => vm[s].result.existing

C1_Witness ==
    \E s \in AllSessions :
        /\ SameVmCallAgain(s)
        /\ ~history.vm.result.existing
        /\ vm[s].result.status = "success"
        /\ vm[s].result.existing

\* every create call of the log follows a check of the same resource that
\* returned False
CreateAfterAbsentCheck(log) ==
    \A i \in Creates(log) :
        \E j \in 1..(i - 1) :
            log[j].op = "check" /\ log[j].rid = log[i].rid /\ log[j].ret = "false"

CreatedOnce(log) ==
    \A i, j \in Creates(log) : log[i].rid = log[j].rid => i = j

\* C2: in the VM agent every create call follows a check of the same resource
\* that returned false in the same invocation, no resource is created twice in
\* an invocation, and no step of any agent removes a resource from the cloud
C2_CreateOnlyIfAbsentNeverDelete ==
    /\ [](\A s \in AllSessions :
            CreateAfterAbsentCheck(vm[s].log) /\ CreatedOnce(vm[s].log))
    /\ [][cloud \subseteq cloud']_vars

\* a call failed midway and what it had created is still there
C2_Witness ==
    \E s \in AllSessions :
        /\ vm[s].pc = "done"
        /\ vm[s].result.status = "error"
        /\ \E i \in Creates(vm[s].log) :
               /\ vm[s].log[i].rid[1] = "vnet"
               /\ vm[s].log[i].rid \in cloud \ vm[s].cloud0
        /\ vm[s].log[Len(vm[s].log)].rid[1] = "nic"

\* C3: a second deploy_ec2_instance with the parameters of a first one that
\* returned success launches no further instance
C3_SecondCallLaunchesNothing ==
    (/\ ec2.pc = "done"
     /\ history.ec2.result.status = "success"
     /\ history.ec2.arg = ec2.arg)
    => \A i \in DOMAIN ec2.log :
           ~(ec2.log[i].op = "run_instances" /\ ec2.log[i].out = "ok")

WebCallOp(i) == <<"create", "begin", "result", "begin", "result">>[i]

WebCallRid(p, i) ==
    CASE i = 1 -> RgOf(p)
      [] i \in {2, 3} -> PlanOf(p)
      [] OTHER -> WebAppOf(p)

CheckPcs == {"check_rg", "check_vnet", "check_vm", "check_pip", "check_nic"}

\* C5: a check of the VM agent returns False only on "not found"; on any other
\* failure it raises, that call is the last provider call of the invocation and
\* the invocation ends with status error; a check changes nothing in the cloud
C5_CheckRaisesOnOtherFailure ==
    /\ [](\A s \in AllSessions : \A i \in DOMAIN vm[s].log :
            vm[s].log[i].op = "check" =>
                /\ vm[s].log[i].ret = "false" => vm[s].log[i].out = "notfound"
                /\ vm[s].log[i].out = "error" =>
                       /\ vm[s].log[i].ret = "raise"
                       /\ i = Len(vm[s].log)
                       /\ vm[s].pc = "done"
                       /\ vm[s].result.status = "error")
    /\ [][\A s \in AllSessions : vm[s].pc \in CheckPcs => cloud' = cloud]_vars

C5_Witness ==
    \E s \in AllSessions :
        /\ vm[s].pc = "done"
        /\ vm[s].result.status = "error"
        /\ Len(vm[s].log) = 3
        /\ vm[s].log[3].op = "check"
        /\ vm[s].log[3].rid[1] = "vnet"
        /\ vm[s].log[3].out = "error"
        /\ Creates(vm[s].log) = {2}

\* before position i the log holds a call that obtained the resource
Obtained(log, i, rid) ==
    \E j \in 1..(i - 1) :
        /\ log[j].rid = rid
        /\ \/ log[j].op = "check" /\ log[j].ret = "true"
           \/ log[j].op \in {"create", "result", "get"} /\ log[j].out = "ok"

\* C6: the VM agent creates along the dependency chain: the network after the
\* resource group was found or created, the interface after the subnet and the
\* public IP were obtained, the machine after the interface was obtained; and
\* the call after an accepted create is the wait for its completion
C6_DependencyOrder ==
    \A s \in AllSessions : \A i \in DOMAIN vm[s].log :
        LET log == vm[s].log
            p == vm[s].params
        IN log[i].op = "begin" =>
             /\ log[i].rid[1] = "vnet" => Obtained(log, i, RgOf(p))
             /\ log[i].rid[1] = "nic" =>
                    /\ Obtained(log, i, SubnetOf(p))
                    /\ Obtained(log, i, PipOf(p))
                    /\ vm[s].subnet_info = SubnetOf(p)
                    /\ vm[s].public_ip_result = PipOf(p)
             /\ log[i].rid[1] = "vm" =>
                    /\ Obtained(log, i, NicOf(p))
                    /\ vm[s].nic_result = NicOf(p)
             /\ (log[i].out = "ok" /\ i < Len(log)) =>
                    log[i + 1].op = "result" /\ log[i + 1].rid = log[i].rid

\* the whole chain was created in one invocation
C6_Witness ==
    \E s \in AllSessions :
        /\ vm[s].pc = "done"
        /\ vm[s].result.status = "success"
        /\ vm[s].cloud0 = {}
        /\ Cardinality(Creates(vm[s].log)) = 5

\* the call of session s has returned, its parameters were valid VM parameters
\* and the named VM existed when it was made
VmExistedAtCall(s) ==
    /\ vm[s].pc = "done"
    /\ vm[s].arg.form # "text"
    /\ validate_parameters(vm[s].arg.val) = "ok"
    /\ vm[s].arg.val["deployment_type"] = "virtual_machine"
    /\ VmOf(vm[s].arg.val) \in vm[s].cloud0

Touches(log, kinds) == \E i \in DOMAIN log : log[i].rid[1] \in kinds

\* C7 as stated: when the named VM exists the agent returns success tagged
\* existing without checking or creating any upstream resource
C7_NoUpstreamCall ==
    \A s \in AllSessions :
        VmExistedAtCall(s) =>
            /\ vm[s].result.status = "success"
            /\ vm[s].result.existing
            /\ ~Touches(vm[s].log, {"rg", "vnet", "subnet", "pip", "nic"})

\* C7, amended: when the named VM exists the agent checks or creates neither
\* the public IP nor the interface and creates no VM; it does check the resource
\* group and the network (creating them if absent) and reads the subnet first,
\* and returns success tagged existing unless one of these calls raises
C7_ShortCircuitAfterNetwork ==
    \A s \in AllSessions :
        VmExistedAtCall(s) =>
            /\ ~Touches(vm[s].log, {"pip", "nic"})
            /\ \A i \in Creates(vm[s].log) : vm[s].log[i].rid[1] \in {"rg", "vnet"}
            /\ Touches(vm[s].log, {"rg"})
            /\ vm[s].result.status = "success" =>
                   /\ vm[s].result.existing
                   /\ Touches(vm[s].log, {"vnet"})
                   /\ Touches(vm[s].log, {"subnet"})
            /\ ~Raised(vm[s].log) =>
                   vm[s].result.status = "success" /\ vm[s].result.existing

\* the VM existed, its network did not and was created before the result
C7_Witness ==
    \E s \in AllSessions :
        /\ VmExistedAtCall(s)
        /\ vm[s].result.status = "success"
        /\ vm[s].result.existing
        /\ \E i \in Creates(vm[s].log) : vm[s].log[i].rid[1] = "vnet"

\* a required parameter is missing from the dict d
LacksRequired(d) ==
    \/ \E k \in {"deployment_type", "resource_group_name", "location"} : ~Has(d, k)
    \/ /\ d["deployment_type"] = "virtual_machine"
       /\ \E k \in {"vm_size", "admin_username", "admin_password"} : ~Has(d, k)

\* C9: deploy_from_parameters with a required parameter missing returns status
\* error and makes no provider call
C9_MissingParameterNoProviderCall ==
    \A s \in AllSessions :
        (vm[s].pc \notin {"idle", "validate"} /\ vm[s].arg.form # "text"
         /\ LacksRequired(vm[s].arg.val)) =>
            /\ vm[s].pc = "done"
            /\ vm[s].result.status = "error"
            /\ vm[s].log = <<>>

C9_Witness ==
    \E s \in AllSessions :
        /\ vm[s].pc = "done"
        /\ ~Has(vm[s].arg.val, "admin_password")
        /\ vm[s].result.message = "Missing required parameter: admin_password"
        /\ vm[s].log = <<>>
        /\ RgOf(vm[s].arg.val) \in cloud

\* a required field of the generator is not passed or is passed empty
GenFieldMissing ==
    \E k \in GenRequired(gen.kind) : ~Has(gen.kwargs, k) \/ gen.kwargs[k] = ""

\* C8: a parameter generator applied to arguments with a required field absent
\* or empty fails and returns no parameter record
C8_GeneratorRejectsMissingOrEmpty ==
    (gen.pc = "done" /\ GenFieldMissing) =>
        gen.out.raised # "" /\ gen.out.record = EmptyDict

\* the plan is Azure/vm and its parameters lack the admin password or hold an
\* empty one
PasswordOmitted(plan) ==
    /\ {"cloud_platform", "deployment_type", "parameters"} \subseteq DOMAIN plan
    /\ lower(plan["cloud_platform"]) = "azure"
    /\ lower(plan["deployment_type"]) = "vm"
    /\ Get(plan["parameters"], "admin_password", "") = ""

\* C10: execute_deployment of an Azure/vm plan without admin password ends
\* failed and makes no provider call
C10_NoPasswordNoProviderCall ==
    (ctl.pc \in {"await_vm", "returned", "raised"} /\ PasswordOmitted(ctl.plan)) =>
        /\ vm[1].log = <<>>
        /\ ctl.pc = "returned" => ctl.result.status = "error"

\* the plan names the platform and the type, in any letter case
PlanIs(plan, platform, type) ==
    /\ {"cloud_platform", "deployment_type"} \subseteq DOMAIN plan
    /\ lower(plan["cloud_platform"]) = platform
    /\ lower(plan["deployment_type"]) = type

\* execute_deployment has passed its routing
Routed == ctl.pc \in {"await_vm", "await_web", "await_ec2", "returned", "raised"}

\* C11: an AWS/ec2 plan is routed to the EC2 generator and the EC2 agent and to
\* no Azure generator or agent; an Azure plan never reaches the EC2 generator
\* or agent
C11_RoutesByPlatform ==
    Routed =>
        /\ PlanIs(ctl.plan, "aws", "ec2") =>
              /\ ctl.generator = "ec2"
              /\ ec2.pc # "idle"
              /\ vm[1].pc = "idle" /\ web.pc = "idle"
        /\ (Has(ctl.plan, "cloud_platform") /\ lower(ctl.plan["cloud_platform"]) = "azure") =>
              /\ ctl.generator # "ec2"
              /\ ec2.pc = "idle"

C11_Witness ==
    /\ PlanIs(ctl.plan, "aws", "ec2")
    /\ ctl.pc = "returned"
    /\ ctl.result.status = "success"
    /\ Instances(cloud) # {}

\* the plan holds a pair of strings that is not a supported one (the platform
\* and the type as the router writes them, the type in either letter case)
Unsupported(plan) ==
    /\ {"cloud_platform", "deployment_type"} \subseteq DOMAIN plan
    /\ <<plan["cloud_platform"], plan["deployment_type"]>>
          \notin {<<"Azure", "vm">>, <<"Azure", "VM">>, <<"Azure", "webapp">>,
                  <<"AWS", "ec2">>}

\* C12: for a plan whose pair of platform and type (two strings) is not a
\* supported one, execute_deployment returns a result with status error and a
\* message, and calls no generator and no agent
C12_UnsupportedPairIsExplicitError ==
    (Routed /\ Unsupported(ctl.plan)) =>
        /\ ctl.pc = "returned"
        /\ ctl.result.status = "error"
        /\ ctl.result.message \in {"Unsupported Azure deployment type",
                                   "Unsupported AWS deployment type",
                                   "Unknown cloud platform"}
        /\ ctl.generator = ""
        /\ vm[1].pc = "idle" /\ web.pc = "idle" /\ ec2.pc = "idle"

C12_Witness ==
    /\ ctl.pc = "returned"
    /\ PlanIs(ctl.plan, "gcp", "vm")
    /\ ctl.result.message = "Unknown cloud platform"

\* no generator and no agent has been called in this session
NothingInvoked ==
    /\ ctl.generator = ""
    /\ vm[1].pc = "idle" /\ web.pc = "idle" /\ ec2.pc = "idle"

\* C13: when the reply of the model cannot be parsed, run ends with status
\* error and the message 'Failed to analyze request', and no generator and no
\* agent is called
C13_UnparseableReplyFailsSession ==
    (run.pc # "idle" /\ run.reply.kind = "text") =>
        /\ run.pc \in {"classify", "done"}
        /\ ctl = CtlIdle
        /\ NothingInvoked
        /\ run.pc = "done" =>
              /\ run.result.status = "error"
              /\ run.result.message = "Failed to analyze request"

C13_Witness ==
    /\ run.pc = "done"
    /\ run.reply.kind = "text"
    /\ run.result.message = "Failed to analyze request"

\* the object has the three fields of a deployment plan with values of the enums
SchemaValid(d) ==
    /\ {"cloud_platform", "deployment_type", "estimated_cost"} \subseteq DOMAIN d
    /\ d["cloud_platform"] \in {"Azure", "AWS", "GCP"}
    /\ d["deployment_type"] \in {"vm", "webapp", "ec2"}

\* C14: the router hands the controller only objects that match the schema of
\* a deployment plan
C14_RouterReturnsOnlyValidPlans ==
    run.deployment_plan.out = "dict" => SchemaValid(run.deployment_plan.val)

\* C15: the session has status success only if the result of the dispatch or
\* the agent has status success
C15_SessionStatusFollowsAgent ==
    (run.pc = "done" /\ run.result.status = "success") =>
        run.result.execution_result.status = "success"

\* C16: a session whose plan is a supported pair reaches the generator and the
\* agent of its type
C16_SupportedPlanReachesAgent ==
    (run.pc = "done" /\ run.deployment_plan.out = "dict") =>
        /\ PlanIs(run.deployment_plan.val, "azure", "vm") =>
              ctl.generator = "vm" /\ vm[1].pc = "done"
        /\ PlanIs(run.deployment_plan.val, "azure", "webapp") =>
              ctl.generator = "webapp" /\ web.pc = "done"
        /\ PlanIs(run.deployment_plan.val, "aws", "ec2") =>
              ctl.generator = "ec2" /\ ec2.pc = "done"

\* the fields of a session: plan, parameters, params_collected, result, logs
SessionFields(st) ==
    [k \in DOMAIN st \cap {"plan", "params", "params_collected", "deployment_result",
                          "deployment_logs"} |-> st[k]]

\* C17: after 'Start New Deployment' the plan, the parameters, params_collected,
\* the deployment result and the deployment logs hold their initial values
C17_ResetClearsSession ==
    ui.last = "reset" =>
        SessionFields(ui.state) = SessionFields(UiFresh(ui.impl).state)

C17_Witness ==
    /\ ui.last = "reset"
    /\ invocations = 1
    /\ cloud # {}
    /\ ctl.result.status = "success"

\* C18: the loop ends with every Exit, and only through Approve, Exit or an
\* error; a script is written only by an Approve, none by an Exit
C18_ExitEndsLoop ==
    /\ review.wrote => review.last = "approve"
    /\ review.last = "exit" => review.pc = "done" /\ ~review.wrote
    /\ review.pc = "done" => review.last \in {"approve", "exit", "error"}

\* C18, amended: a script is written only by an Approve and none by an Exit;
\* the console loops of architect.py and plan_generation_agent.py end with
\* every Approve and Exit and only through Approve, Exit or an error; the form
\* of streamlit.py never ends the review: after Exit, as after Approve, it is
\* still shown
C18_ExitEndsConsoleLoopOnly ==
    /\ review.wrote => review.last = "approve"
    /\ review.last = "exit" => ~review.wrote
    /\ review.pc = "done" => review.last \in {"approve", "exit", "error"}
    /\ review.impl # "streamlit" =>
          (review.last \in {"approve", "exit"} => review.pc = "done")
    /\ review.impl = "streamlit" => review.pc # "done"

C18_Witness ==
    /\ review.impl = "streamlit"
    /\ review.last = "exit"
    /\ review.pc = "review"
    /\ review.plan # <<>>
    /\ ~review.written

\* C19: a successful modification request replaces the plan text in memory by
\* what the model wrote, and an approval extracts the resources from the text
\* written last
C19_ApprovalUsesLatestPlan ==
    /\ review.last = "modify" =>
          (IF review.impl = "planner" THEN review.deployment_plan ELSE review.plan)
              = review.latest
    /\ review.last = "approve" =>
          review.script.resources = extract_resources_from_plan(review.latest)

C19_Witness ==
    /\ review.last = "approve"
    /\ review.impl = "architect"
    /\ review.latest # review.deployment_plan
    /\ review.script.resources = <<"ResourceGroup", "1. VirtualNetwork">>

\* C20: an approval whose extracted resource list is empty writes no script
C20_EmptyListWritesNoScript ==
    (review.last = "approve" /\ review.resources = <<>>) => ~review.wrote

\* the lines of the '## Deployment Sequence' section of a text: those after
\* the heading, up to the next heading or the end
SectionLines(text) ==
    LET n == Len(text)
        heads == {i \in 1..n : text[i].lead = "## " /\ text[i].body = "Deployment Sequence"}
        first == CHOOSE i \in heads : \A k \in heads : i <= k
        ends == {j \in (first + 1)..n : text[j].lead \in {"# ", "## ", "### "}}
        last == IF ends = {} THEN n + 1 ELSE CHOOSE j \in ends : \A k \in ends : j <= k
    IN IF heads = {} THEN <<>> ELSE SubSeq(text, first + 1, last - 1)

HasSection(text) ==
    \E i \in 1..Len(text) : text[i].lead = "## " /\ text[i].body = "Deployment Sequence"

\* the line items of the section, without their list markers and without the
\* lines that start with 'Dependencies'
SectionItems(text) ==
    LET item(l) == /\ l.lead \in {"-", "- ", "  - ", "1. "}
                   /\ l.body \notin {"Dependencies", "Dependencies: none"}
        items == SelectSeq(SectionLines(text), item)
    IN [k \in 1..Len(items) |-> items[k].body]

\* C21: for a plan text with a '## Deployment Sequence' section, the extracted
\* resources are the section's line items in order, list markers removed and
\* 'Dependencies' lines left out
C21_ExtractsSectionItems ==
    (review.last = "approve" /\ HasSection(plan_at_approval(review))) =>
        review.resources = SectionItems(plan_at_approval(review))

\* C22: for a plan text whose 'Deployment Sequence' section is missing or
\* holds no line, the extracted resource list is empty
C22_NoSectionNoResources ==
    (review.last = "approve" /\ SectionLines(plan_at_approval(review)) = <<>>) =>
        review.resources = <<>>

C22_Witness ==
    /\ review.last = "approve"
    /\ review.wrote
    /\ review.resources = <<>>
    /\ plan_at_approval(review) # <<>>
    /\ ~HasSection(plan_at_approval(review))

\* the identifier a naming convention gives a resource type
Identifier(convention, resourcetype) ==
    resourcetype \o "-" \o convention[2] \o "-" \o convention[3] \o "-" \o convention[4]

\* C23: the naming convention handed to script generation is the pattern
\* <resourcetype>-<environment>-<application_name>-<location> with the three
\* names that were given (the console takes prod, aumanager and EastUS for
\* an empty answer); with prod, aumanager and EastUS the identifier of a vnet
\* is vnet-prod-aumanager-EastUS
C23_NamingConventionFromInputs ==
    review.last = "approve" =>
        LET convention == review.script.naming_convention
            defaults == <<"prod", "aumanager", "EastUS">>
        IN /\ convention[1] = "<resourcetype>"
           /\ \A i \in 1..3 :
                 convention[i + 1] =
                     IF review.answers[i] = "" /\ review.impl # "streamlit"
                     THEN defaults[i] ELSE review.answers[i]
           /\ <<convention[2], convention[3], convention[4]>> = defaults =>
                 Identifier(convention, "vnet") = "vnet-prod-aumanager-EastUS"

C23_Witness ==
    /\ review.last = "approve"
    /\ review.impl = "architect"
    /\ review.answers = <<"dev", "", "WestEurope">>
    /\ Identifier(review.script.naming_convention, "vnet") = "vnet-dev-aumanager-WestEurope"

\* C24: the script that is written holds no fence marker, and stripping the
\* fence from what was written changes nothing
C24_PersistedScriptIsUnfenced ==
    review.last = "approve" =>
        LET code == SubSeq(review.script.code, 3, Len(review.script.code))
        IN /\ \A i \in 1..Len(code) : code[i] \notin {"<fence>", "<fence>python"}
           /\ strip_code_fence(code) = code

\* C25: rate-limit and connectivity failures are retried, the wait doubling
\* after every failed attempt of either kind, up to three attempts; a failure
\* of the last attempt raises; any other failure raises at once
C25_BackoffDoublesForEitherKind ==
    /\ \A i \in 1..Len(retry.slept) : retry.slept[i] = 2 ^ i
    /\ Len(retry.failures) <= max_retries
    /\ Len(retry.failures) = max_retries => retry.pc = "raised"
    /\ retry.pc = "returned" => Len(retry.slept) = Len(retry.failures)
    /\ \A i \in 1..Len(retry.failures) :
          retry.failures[i] = "APIStatusError" =>
              retry.pc = "raised" /\ i = Len(retry.failures)

\* an agent that has returned has returned a record with status success or
\* error, and a provider call that failed is the last call it made
AgentFailuresReturned ==
    LET ended(log) == \A i \in 1..Len(log) : log[i].out = "error" => i = Len(log)
        settled(a) == /\ a.pc = "done" => a.result.status \in {"success", "error"}
                      /\ ended(a.log)
    IN /\ \A s \in AllSessions : settled(vm[s])
       /\ settled(web)
       /\ settled(ec2)

\* C26: the three agents and deploy_infrastructure return a record with
\* status success or error whatever the parameters and whatever fails; no
\* failure is raised to the caller and no failed call is made again
C26_FailuresAreReturnedNotRaised ==
    /\ AgentFailuresReturned
    /\ infra.pc # "raised"
    /\ infra.pc = "returned" => infra.result["status"] \in {"success", "error"}

\* C27: when a command of deploy_infrastructure exits non-zero, what it
\* printed is in the log file and the function returns status error with
\* message, details and log_file; status success is returned only after
\* pulumi up has exited with 0
C27_ToolFailureLoggedAndReturned ==
    /\ infra.failed # "" /\ infra.pc # "handle" =>
          /\ infra.pc = "returned"
          /\ infra.result["status"] = "error"
          /\ {"message", "details", "log_file"} \subseteq DOMAIN infra.result
          /\ infra.output # "" => infra.log \notin {"", None}
    /\ infra.pc = "returned" /\ infra.result["status"] = "success" =>
          infra.failed = "" /\ commands(infra.stack_exists)[infra.step] = "up"

\* C28: with two sessions on the same names, each session still creates a
\* resource at most once and only after its own check found it absent; no
\* more than that check guards the create call (the witness is a run in which
\* both sessions find a resource absent and both create it)
C28_CreateGuardedByOwnCheckOnly ==
    \A s \in AllSessions :
        CreateAfterAbsentCheck(vm[s].log) /\ CreatedOnce(vm[s].log)

C28_Witness ==
    \E rid \in InitialResources :
        \A s \in AllSessions :
            \E i, j \in 1..Len(vm[s].log) :
                /\ i < j
                /\ vm[s].log[i] = Entry("check", rid, "notfound", "false")
                /\ vm[s].log[j].op \in {"create", "begin"}
                /\ vm[s].log[j].rid = rid
                /\ vm[s].log[j].out = "ok"

\* C29: when an agent returns, the parameter record it was passed is as it
\* was passed (params is the dict of the caller, arg what it held at the call)
C29_ParametersNotMutated ==
    /\ \A s \in AllSessions :
          (vm[s].pc = "done" /\ vm[s].params # EmptyDict) => vm[s].params = vm[s].arg.val
    /\ ec2.pc = "done" => ec2.params = ec2.arg

\* C30: a call that finds the virtual network present and its subnet absent,
\* and meets no provider failure, creates the subnet and goes on to success
C30_AbsentSubnetIsCreated ==
    \A s \in AllSessions :
        (/\ vm[s].pc = "done"
         /\ vm[s].log # <<>>
         /\ VnetOf(vm[s].params) \in vm[s].cloud0
         /\ SubnetOf(vm[s].params) \notin vm[s].cloud0
         /\ ~Faulted(vm[s].log))
        => /\ SubnetOf(vm[s].params) \in cloud
           /\ vm[s].result.status = "success"

\* the plan is an Azure plan of a supported type whose parameters are absent
\* or lack a field its generator requires
ParametersIncomplete(plan) ==
    \E type \in {"vm", "webapp"} :
        /\ PlanIs(plan, "azure", type)
        /\ \/ ~Has(plan, "parameters")
           \/ ~(GenRequired(type) \subseteq DOMAIN plan["parameters"])

\* C31: execute_deployment returns a record with a status for every plan and
\* never raises; a plan whose parameters are absent or incomplete gives status
\* error
C31_ExecuteDeploymentAlwaysReturns ==
    /\ ctl.pc # "raised"
    /\ ctl.pc = "returned" => ctl.result.status \in {"success", "error"}
    /\ (Routed /\ ParametersIncomplete(ctl.plan)) =>
          ctl.pc = "returned" /\ ctl.result.status = "error"

\* C32: deploy_infrastructure runs its commands in the fixed order, and no
\* command is run after one that failed (an import of an installed package
\* included), so pulumi up is run only after every earlier command exited
\* with 0
C32_NoStepAfterFailedStep ==
    /\ \A i \in 1..Len(infra.ran) :
          infra.ran[i].cmd = commands(infra.stack_exists)[i]
    /\ \A i \in 1..Len(infra.ran) : infra.ran[i].exit # 0 => i = Len(infra.ran)

\* the commands that have been run
HasRun == {infra.ran[i].cmd : i \in 1..Len(infra.ran)}

\* C33: an existing stack is selected only if pulumi stack ls listed a stack
\* with exactly the name <environment>-<application_name>; otherwise a stack
\* with that name is initialised
C33_SelectsOnlyExactStack ==
    LET exact == \E l \in 1..Len(infra.listed) :
                    infra.listed[l] = stack_name(infra.config)
    IN /\ "stack select" \in HasRun => exact
       /\ (HasRun \cap {"stack select", "stack init"} # {} /\ ~exact) =>
             "stack init" \in HasRun

\* C34: in the console loops, a request for modifications with empty
\* feedback, or one whose call of the model fails, leaves the plan text as it
\* was and the loop at the review prompt
C34_FailedModifyKeepsPlanAndLoop ==
    [][(review.impl # "streamlit"
        /\ review'.last \in {"no_feedback", "modify_failed"}) =>
          /\ review'.plan = review.plan
          /\ review'.deployment_plan = review.deployment_plan
          /\ review.pc = "review" /\ review'.pc = "review"]_vars

C34_Witness ==
    /\ review.impl # "streamlit"
    /\ review.last = "modify_failed"
    /\ review.pc = "review"
    /\ plan_at_approval(review) # <<>>

\* a deployment result is stored in the session
ResultStored(st) == st["deployment_result"].status # "none"

\* C35: in the deployment tab execute_deployment is called only when a plan
\* is stored, the parameters are confirmed and no result is stored; the
\* deployment section always ends by storing a result with status success or
\* error; and a stored result is removed only together with the confirmation,
\* so that a further deployment needs a further confirmation
C35_OneDeploymentPerConfirmation ==
    [][/\ (ctl.pc # "dispatch" /\ ctl'.pc = "dispatch") =>
             /\ ui.state["plan"].out = "dict" /\ ui.state["plan"].val # EmptyDict
             /\ ui.state["params_collected"]
             /\ ~ResultStored(ui.state)
             /\ ctl'.plan["parameters"] = ui.state["params"]
       /\ (ui.last # "deploy" /\ ui'.last = "deploy") \/ (ui.pc = "deploying" /\ ui'.pc = "idle") =>
             /\ ResultStored(ui'.state)
             /\ ui'.state["deployment_result"].status \in {"success", "error"}
       /\ (ResultStored(ui.state) /\ ~ResultStored(ui'.state)) =>
             ~ui'.state["params_collected"]]_vars

C35_Witness ==
    /\ ui.last = "deploy"
    /\ invocations = MaxInvocations
    /\ ctl.pc = "returned"
    /\ ResultStored(ui.state)
    /\ ui.state["params_collected"]

\* C36: the record an agent is handed by execute_deployment is the one its
\* generator makes of the parameters of the request, plan["parameters"], for
\* every deployment type, ec2 included
C36_AgentRecordFromRequest ==
    (Routed /\ ctl.generator # "") =>
        /\ Has(ctl.plan, "parameters")
        /\ ctl.user_params = ctl.plan["parameters"]
        /\ ctl.pc = "await_vm" =>
              vm[1].arg.val = generate_vm_parameters(ctl.plan["parameters"]).record
        /\ ctl.pc = "await_web" =>
              web.params = generate_webapp_parameters(ctl.plan["parameters"]).record
        /\ ctl.pc = "await_ec2" =>
              ec2.arg = generate_ec2_parameters(ctl.plan["parameters"]).record

\* '\n'.join(lines)
Joined(lines) ==
    LET upto[k \in 0..Len(lines)] ==
            IF k = 0 THEN <<>>
            ELSE IF k = 1 THEN lines[1]
            ELSE upto[k - 1] \o <<"\n">> \o lines[k]
    IN upto[Len(lines)]

\* C37: on the Azure VM path sys.stdout names the capture buffer only while
\* the call runs; when the call has returned or raised it names the stream it
\* named before the call; and the 'logs' of a returned result are the lines
\* of the text printed during the call, in order (the last of them the empty
\* line after the final line break)
C37_StdoutRestoredLogsCaptured ==
    /\ ctl.stdout = "buffer" => ctl.pc = "await_vm"
    /\ ctl.pc \in {"returned", "raised"} => ctl.stdout = ctl.stdout0
    /\ (ctl.pc = "returned" /\ ctl.generator = "vm") =>
          /\ ctl.result.logs
          /\ \A k \in 1..Len(ctl.logs) : \A i \in 1..Len(ctl.logs[k]) :
                ctl.logs[k][i] # "\n"
          /\ Joined(ctl.logs) = ctl.printed

C37_Witness ==
    /\ ctl.pc = "returned"
    /\ ctl.generator = "vm"
    /\ ctl.stdout0 = "stream" /\ ctl.stdout = "stream"
    /\ ctl.result.status = "success"
    /\ ~ctl.result.existing
    /\ <<"Successfully created", "vm">> \in {ctl.logs[k] : k \in 1..Len(ctl.logs)}

\* C38: when the orchestrator returns a result with status error, the
\* response has status 400 and carries the message of the result; status 500
\* is answered only when an exception other than that occurred; a result with
\* any other status is returned as it is
C38_ErrorResultIs400 ==
    (api.pc = "responded" /\ api.outcome.kind = "returned"
     /\ Has(api.outcome.val, "status")) =>
        /\ (api.outcome.val["status"] = "error" /\ Has(api.outcome.val, "message")) =>
              /\ api.response.status_code = 400
              /\ api.response.detail = api.outcome.val["message"]
        /\ api.outcome.val["status"] # "error" =>
              /\ api.response.status_code = 200
              /\ api.response.body = api.outcome.val

\* the runtime string holds a '|'
HasBar(runtime) == \E i \in 1..Len(runtime) : runtime[i] = "|"

\* C39: _validate_runtime returns a runtime string that holds '|' as it is,
\* a known shorthand as its 'STACK|version' form and any other string as
\* 'PYTHON|3.9'; every result holds '|', and a second application returns the
\* result of the first
C39_ValidateRuntimeNormalises ==
    web.pc \in {"validated", "validated_twice"} =>
        LET runtime == web.params["runtime"]
            result == web.formatted_runtime
            known == {<<"python", ":", "3.9">>, <<"python", ":", "3.8">>,
                      <<"node", ":", "16-lts">>, <<"node", ":", "18-lts">>,
                      <<"dotnet", ":", "6">>, <<"php", ":", "8">>}
        IN /\ HasBar(runtime) => result = runtime
           /\ runtime \in known =>
                 /\ Len(result) = 3 /\ result[2] = "|"
                 /\ result[1] = CASE runtime[1] = "python" -> "PYTHON"
                                  [] runtime[1] = "node" -> "NODE"
                                  [] runtime[1] = "dotnet" -> "DOTNETCORE"
                                  [] OTHER -> "PHP"
                 /\ result[3] = CASE runtime[3] = "6" -> "6.0"
                                  [] runtime[3] = "8" -> "8.0"
                                  [] OTHER -> runtime[3]
           /\ (~HasBar(runtime) /\ runtime \notin known) => result = <<"PYTHON", "|", "3.9">>
           /\ HasBar(result)
           /\ web.pc = "validated_twice" => web.validated_again = result

C39_Witness ==
    /\ web.pc = "validated_twice"
    /\ web.params["runtime"] = <<"ruby", ":", "3.9">>
    /\ web.formatted_runtime = <<"PYTHON", "|", "3.9">>
    /\ web.validated_again = <<"PYTHON", "|", "3.9">>

====
